---- MODULE Spec2Model ----
(***************************************************************************)
(* A model of the deck acquisition and normalisation pipeline of           *)
(* CockatriceAssistant: card-name cleaning, conversion of a universal deck *)
(* to the Cockatrice model, the .cod writer and parser, the import         *)
(* dispatcher, the two catalog caches, the Moxfield catalog pagination,    *)
(* the MTGGoldfish import, the format classifier, the import of a deck    *)
(* from a url, the batch import, the threads of the window, the retries    *)
(* of the MTGJSON requests, the Moxfield converters and the installation   *)
(* of a theme.                                                             *)
(*                                                                         *)
(* Text is modelled as a sequence of one-character strings, so that        *)
(* lower(), strip(), split() and the substring tests are computed and not  *)
(* assumed.  Dictionaries are functions whose DOMAIN is the set of keys    *)
(* present, so that dict.get(key, default) is computed too.                *)
(***************************************************************************)
EXTENDS Integers, Sequences, FiniteSets, TLC

VARIABLES
    nm,      \* clean_card_name: the raw name and the two functions' results
    conv,    \* convert_universal_to_cockatrice: the deck and its conversion
    cod,     \* write_cod / parse_cod: the deck, the file and the re-read deck
    mgr,     \* DeckImportManager: the scrapers and the last fetch_deck
    clock,   \* time.time() / datetime.now(), in seconds
    disk,    \* the cache files of MoxfieldScraper and MTGJsonScraper
    server,  \* what the remote services hold
    last,    \* the last scraper operation: its arguments and its outcome
    gf,      \* MTGGoldfishImportScraper.fetch_deck: the response and the result
    inf,     \* DeckFilters.infer_format: the record and the result
    imp,     \* MainWindow._import_deck_from_url: the deck, the folder, the file
    batch,   \* MainWindow.export_precons: the selected decks and their fate
    ui,      \* the application's threads and what each is doing
    fu,      \* MTGJsonScraper._fetch_url: the attempts of one call
    mx,      \* one deck handed to one of the three converters, and its output
    th       \* download_and_install_theme: the themes folder and one call

vars == <<nm, conv, cod, mgr, clock, disk, server, last, gf, inf, imp, batch, ui, fu, mx, th>>

(***************************************************************************)
(* Text helpers: Python's str methods on sequences of characters.          *)
(***************************************************************************)

\* The whitespace characters str.strip() removes (those the model draws).
IsSpace(c) == c \in {" ", "\t", "\n"}

RECURSIVE lstrip(_)
lstrip(s) ==
    IF s = <<>> THEN <<>>
    ELSE IF IsSpace(Head(s)) THEN lstrip(Tail(s)) ELSE s

RECURSIVE rstrip(_)
rstrip(s) ==
    IF s = <<>> THEN <<>>
    ELSE IF IsSpace(s[Len(s)]) THEN rstrip(SubSeq(s, 1, Len(s) - 1)) ELSE s

\* str.strip()
strip(s) == rstrip(lstrip(s))

\* s.startswith(p)
startswith(s, p) == Len(p) <= Len(s) /\ SubSeq(s, 1, Len(p)) = p

\* str.split(sep): the parts of s between the occurrences of sep, scanned
\* from the left without overlap.
RECURSIVE split_from(_, _, _)
split_from(s, sep, cur) ==
    IF s = <<>> THEN <<cur>>
    ELSE IF startswith(s, sep)
         THEN <<cur>> \o split_from(SubSeq(s, Len(sep) + 1, Len(s)), sep, <<>>)
         ELSE split_from(Tail(s), sep, Append(cur, Head(s)))

split(s, sep) == split_from(s, sep, <<>>)

\* sub in s
contains(s, sub) ==
    \E i \in 1..(Len(s) - Len(sub) + 1) : SubSeq(s, i, i + Len(sub) - 1) = sub

LowerChar(c) ==
    CASE c = "A" -> "a" [] c = "B" -> "b" [] c = "C" -> "c" [] c = "D" -> "d"
      [] c = "E" -> "e" [] c = "F" -> "f" [] c = "G" -> "g" [] c = "H" -> "h"
      [] c = "I" -> "i" [] c = "J" -> "j" [] c = "K" -> "k" [] c = "L" -> "l"
      [] c = "M" -> "m" [] c = "N" -> "n" [] c = "O" -> "o" [] c = "P" -> "p"
      [] c = "Q" -> "q" [] c = "R" -> "r" [] c = "S" -> "s" [] c = "T" -> "t"
      [] c = "U" -> "u" [] c = "V" -> "v" [] c = "W" -> "w" [] c = "X" -> "x"
      [] c = "Y" -> "y" [] c = "Z" -> "z" [] OTHER -> c

\* str.lower()
lower(s) == [i \in 1..Len(s) |-> LowerChar(s[i])]

\* dict.get(key, default)
get(d, key, default) == IF key \in DOMAIN d THEN d[key] ELSE default

\* All sequences over S of length at most n.
SeqsUpTo(S, n) == UNION {[1..k -> S] : k \in 0..n}

SLASHES == <<"/", "/">>

(***************************************************************************)
(* clean_card_name (importers/deck_import.py and importers/                *)
(* moxfield_scraper.py hold the same function).                            *)
(***************************************************************************)

\* A plausible slip: the name after the separator instead of before it.
clean_card_name_last(name) ==
    IF name = <<>> THEN <<>>
    ELSE IF contains(name, SLASHES)
         THEN strip(split(name, SLASHES)[Len(split(name, SLASHES))])
         ELSE strip(name)

clean_card_name(name) ==
    IF name = <<>> THEN <<>>
    ELSE IF contains(name, SLASHES)
         THEN strip(split(name, SLASHES)[1])
         ELSE strip(name)

moxfield_clean_card_name(name) ==
    IF name = <<>> THEN <<>>
    ELSE IF contains(name, SLASHES)
         THEN strip(split(name, SLASHES)[1])
         ELSE strip(name)

\* Bounds of the raw names drawn for clean_card_name.
MaxNameLen == 4
NameAlphabet == {"a", "b", " ", "/"}

NmIdle == [pc |-> "idle", raw |-> <<>>, out |-> <<>>, mox_out |-> <<>>]

NmInit == \E r \in SeqsUpTo(NameAlphabet, MaxNameLen) :
    nm = [pc |-> "input", raw |-> r, out |-> <<>>, mox_out |-> <<>>]

CleanName ==
    /\ nm.pc = "input"
    /\ nm' = [nm EXCEPT !.pc = "cleaned",
                        !.out = clean_card_name(nm.raw),
                        !.mox_out = moxfield_clean_card_name(nm.raw)]

(***************************************************************************)
(* convert_universal_to_cockatrice (importers/deck_import.py).             *)
(***************************************************************************)

STR_commander == <<"c", "o", "m", "m", "a", "n", "d", "e", "r">>
STR_standard == <<"s", "t", "a", "n", "d", "a", "r", "d">>
STR_unknown == <<"u", "n", "k", "n", "o", "w", "n">>

\* sum(card.get("quantity", 1) for card in cards)
RECURSIVE quantity_sum(_)
quantity_sum(cards) ==
    IF cards = <<>> THEN 0
    ELSE get(Head(cards), "quantity", 1) + quantity_sum(Tail(cards))

detect_deck_format(deck) ==
    IF deck.commanders # <<>> THEN STR_commander
    ELSE IF quantity_sum(deck.mainboard) = 60 THEN STR_standard
    ELSE IF quantity_sum(deck.mainboard) = 100 THEN STR_commander
    ELSE IF deck.format # <<>> THEN lower(deck.format) ELSE STR_unknown

CardEntry(number, name, setShortName, collectorNumber, uuid) ==
    [number |-> number, name |-> name, setShortName |-> setShortName,
     collectorNumber |-> collectorNumber, uuid |-> uuid]

make_card_entries(card_list) ==
    [i \in 1..Len(card_list) |->
        CardEntry(get(card_list[i], "quantity", 1),
                  clean_card_name(get(card_list[i], "name", <<>>)),
                  get(card_list[i], "set", <<>>),
                  get(card_list[i], "collector_number", <<>>),
                  get(card_list[i], "scryfall_id", <<>>))]

\* for commander in commanders: if commander.strip(): side_entries.append(...)
RECURSIVE commander_entries(_)
commander_entries(commanders) ==
    IF commanders = <<>> THEN <<>>
    ELSE (IF strip(Head(commanders)) # <<>>
          THEN <<CardEntry(1, clean_card_name(Head(commanders)), <<>>, <<>>, <<>>)>>
          ELSE <<>>)
         \o commander_entries(Tail(commanders))

\* The banner card of a commander deck: the first entry appended while
\* banner_card was still empty.
RECURSIVE first_banner(_)
first_banner(entries) ==
    IF entries = <<>> THEN <<>>
    ELSE IF Head(entries).name # <<>> THEN Head(entries).name
    ELSE first_banner(Tail(entries))

\* A plausible slip: the commander branch decided by the deck's own format
\* field instead of the detected format and the commanders list.
commander_branch_by_format(deck) == lower(deck.format) = STR_commander

\* if deck_format == "commander" or universal_deck.commanders:
commander_branch(deck) ==
    detect_deck_format(deck) = STR_commander \/ deck.commanders # <<>>

\* pick: the index random.choice draws in the mainboard (non-commander decks).
convert_universal_to_cockatrice(deck, pick) ==
    LET main_entries == make_card_entries(deck.mainboard)
        side_entries == make_card_entries(deck.sideboard)
        extra == commander_entries(deck.commanders)
    IN  IF commander_branch(deck)
        THEN [deckname |-> deck.name, zone_main |-> main_entries,
              zone_side |-> side_entries \o extra,
              banner_card |-> first_banner(extra)]
        ELSE [deckname |-> deck.name, zone_main |-> main_entries,
              zone_side |-> side_entries,
              banner_card |-> IF deck.mainboard # <<>>
                              THEN clean_card_name(get(deck.mainboard[pick], "name", <<>>))
                              ELSE <<>>]

\* Bounds of the decks drawn for the conversion.
MaxMain == 2
MaxSide == 1
MaxCommanders == 2

\* Card dictionaries as the scrapers build them; a key may be missing.
ConvCards ==
    { [name |-> <<"F", " ", "/", "/", " ", "I">>, quantity |-> 60],
      [quantity |-> 40],
      [name |-> <<" ", "C", " ">>] }

ConvCommanders ==
    { <<"K", " ", "/", "/", " ", "Q">>, <<" ">>, <<"/", "/", " ", "Q">> }

ConvFormats ==
    { STR_standard, <<>>, <<"C", "o", "m", "m", "a", "n", "d", "e", "r">> }

NoCockatriceDeck ==
    [deckname |-> <<>>, zone_main |-> <<>>, zone_side |-> <<>>, banner_card |-> <<>>]

ConvIdle ==
    [pc |-> "idle",
     deck |-> [name |-> <<>>, format |-> <<>>, mainboard |-> <<>>,
               sideboard |-> <<>>, commanders |-> <<>>],
     out |-> NoCockatriceDeck]

ConvInit ==
    \E f \in ConvFormats, m \in SeqsUpTo(ConvCards, MaxMain),
       s \in SeqsUpTo(ConvCards, MaxSide),
       c \in SeqsUpTo(ConvCommanders, MaxCommanders) :
        conv = [pc |-> "input",
                deck |-> [name |-> <<"D">>, format |-> f, mainboard |-> m,
                          sideboard |-> s, commanders |-> c],
                out |-> NoCockatriceDeck]

Convert ==
    /\ conv.pc = "input"
    /\ \E pick \in 1..(IF conv.deck.mainboard = <<>> THEN 1 ELSE Len(conv.deck.mainboard)) :
        conv' = [conv EXCEPT !.pc = "converted",
                             !.out = convert_universal_to_cockatrice(conv.deck, pick)]

(***************************************************************************)
(* write_cod / parse_cod (deck_parser.py).  The file is the XML document   *)
(* lxml serialises: attribute values are stored escaped and are unescaped  *)
(* by the parser; numbers are stored as decimal text.                      *)
(***************************************************************************)

\* Python's None: a value that equals no text.
None == <<"None">>

Digits == <<"0", "1", "2", "3", "4", "5", "6", "7", "8", "9">>

\* str(n) for n >= 0
RECURSIVE str_int(_)
str_int(n) ==
    IF n < 10 THEN <<Digits[n + 1]>>
    ELSE Append(str_int(n \div 10), Digits[(n % 10) + 1])

DigitValue(c) == CHOOSE d \in 0..9 : Digits[d + 1] = c

\* int(s) for decimal text s
RECURSIVE int_str(_)
int_str(s) ==
    IF s = <<>> THEN 0
    ELSE 10 * int_str(SubSeq(s, 1, Len(s) - 1)) + DigitValue(s[Len(s)])

ENT_amp == <<"&", "a", "m", "p", ";">>
ENT_lt == <<"&", "l", "t", ";">>
ENT_gt == <<"&", "g", "t", ";">>
ENT_quot == <<"&", "q", "u", "o", "t", ";">>

\* The serialiser's escaping of an attribute value.
RECURSIVE xml_escape(_)
xml_escape(s) ==
    IF s = <<>> THEN <<>>
    ELSE (CASE Head(s) = "&" -> ENT_amp
            [] Head(s) = "<" -> ENT_lt
            [] Head(s) = ">" -> ENT_gt
            [] Head(s) = "\"" -> ENT_quot
            [] OTHER -> <<Head(s)>>)
         \o xml_escape(Tail(s))

\* The parser's reading of an attribute value.
RECURSIVE xml_unescape(_)
xml_unescape(s) ==
    IF s = <<>> THEN <<>>
    ELSE IF startswith(s, ENT_amp)
         THEN <<"&">> \o xml_unescape(SubSeq(s, Len(ENT_amp) + 1, Len(s)))
    ELSE IF startswith(s, ENT_lt)
         THEN <<"<">> \o xml_unescape(SubSeq(s, Len(ENT_lt) + 1, Len(s)))
    ELSE IF startswith(s, ENT_gt)
         THEN <<">">> \o xml_unescape(SubSeq(s, Len(ENT_gt) + 1, Len(s)))
    ELSE IF startswith(s, ENT_quot)
         THEN <<"\"">> \o xml_unescape(SubSeq(s, Len(ENT_quot) + 1, Len(s)))
    ELSE <<Head(s)>> \o xml_unescape(Tail(s))

\* The attributes of one card element: setShortName, collectorNumber and
\* uuid only when truthy (neither None nor empty).
Truthy(v) == v # None /\ v # <<>>

card_attrs(c) ==
    LET base == [k \in {"number", "name"} |->
                    IF k = "number" THEN str_int(c.number) ELSE xml_escape(c.name)]
        opt == {k \in {"setShortName", "collectorNumber", "uuid"} : Truthy(c[k])}
    IN  [k \in {"number", "name"} \cup opt |->
            IF k \in {"number", "name"} THEN base[k] ELSE xml_escape(c[k])]

make_zone(name, entries) ==
    [name |-> name, cards |-> [i \in 1..Len(entries) |-> card_attrs(entries[i])]]

\* The document write_cod writes.
write_cod(deck) ==
    [deckname |-> xml_escape(deck.deckname),
     zones |-> <<make_zone("main", deck.zone_main), make_zone("side", deck.zone_side)>>]

\* card.get(attr): the unescaped attribute, None when absent.
attr_get(attrs, k) == IF k \in DOMAIN attrs THEN xml_unescape(attrs[k]) ELSE None

parse_card(attrs) ==
    [number |-> int_str(get(attrs, "number", <<"1">>)),
     name |-> IF Truthy(attr_get(attrs, "name")) THEN attr_get(attrs, "name") ELSE <<>>,
     setShortName |-> attr_get(attrs, "setShortName"),
     collectorNumber |-> attr_get(attrs, "collectorNumber"),
     uuid |-> attr_get(attrs, "uuid")]

\* A plausible slip: every zone is read into the main list.
parse_zone_target_main(zone_name) == "main"

\* target_list = deck.zone_main if zone_name == 'main' else deck.zone_side
parse_zone_target(zone_name) == IF zone_name = "main" THEN "main" ELSE "side"

RECURSIVE zone_cards(_, _)
zone_cards(zones, target) ==
    IF zones = <<>> THEN <<>>
    ELSE (IF parse_zone_target(Head(zones).name) = target
          THEN [i \in 1..Len(Head(zones).cards) |-> parse_card(Head(zones).cards[i])]
          ELSE <<>>)
         \o zone_cards(Tail(zones), target)

parse_cod(doc) ==
    [deckname |-> IF doc.deckname # <<>> THEN xml_unescape(doc.deckname) ELSE None,
     zone_main |-> zone_cards(doc.zones, "main"),
     zone_side |-> zone_cards(doc.zones, "side")]

\* Bounds of the decks drawn for the writer.
MaxZone == 2

CodEntries ==
    { CardEntry(1, <<"A">>, <<"S">>, None, <<>>),
      CardEntry(4, <<"R", "&", "D">>, <<>>, <<>>, <<>>),
      CardEntry(10, <<"a", "<", "b", ">">>, None, None, None),
      CardEntry(36, <<"\"", "q", "\"">>, <<>>, <<"7">>, <<>>),
      CardEntry(2, <<"&", "a", "m", "p", ";">>, <<>>, <<>>, <<>>),
      CardEntry(1, <<>>, <<>>, <<>>, <<>>) }

NoDoc == [deckname |-> <<>>, zones |-> <<>>]
NoParsed == [deckname |-> None, zone_main |-> <<>>, zone_side |-> <<>>]

CodIdle ==
    [pc |-> "idle",
     deck |-> [deckname |-> <<>>, zone_main |-> <<>>, zone_side |-> <<>>],
     file |-> NoDoc, parsed |-> NoParsed]

CodInit ==
    \E m \in SeqsUpTo(CodEntries, MaxZone), sd \in SeqsUpTo(CodEntries, MaxZone) :
        cod = [pc |-> "input",
               deck |-> [deckname |-> <<"D", "&">>, zone_main |-> m, zone_side |-> sd],
               file |-> NoDoc, parsed |-> NoParsed]

WriteCod ==
    /\ cod.pc = "input"
    /\ cod' = [cod EXCEPT !.pc = "written", !.file = write_cod(cod.deck)]

ParseCod ==
    /\ cod.pc = "written"
    /\ cod' = [cod EXCEPT !.pc = "parsed", !.parsed = parse_cod(cod.file)]

(***************************************************************************)
(* DeckImportManager (importers/deck_import.py) and the two scrapers that  *)
(* initialize_deck_importers registers.                                    *)
(***************************************************************************)

STR_moxfield_com == <<"m", "o", "x", "f", "i", "e", "l", "d", ".", "c", "o", "m">>
STR_mtggoldfish_com == <<"m", "t", "g", "g", "o", "l", "d", "f", "i", "s", "h", ".", "c", "o", "m">>

\* MoxfieldImportScraper.can_handle_url / MTGGoldfishImportScraper.can_handle_url
can_handle_url(kind, url) ==
    IF kind = "Moxfield" THEN contains(lower(url), STR_moxfield_com)
    ELSE contains(lower(url), STR_mtggoldfish_com)

\* A plausible slip: the loop keeps the last matching scraper.
RECURSIVE get_scraper_for_url_last(_, _, _)
get_scraper_for_url_last(scrapers, url, i) ==
    IF i > Len(scrapers) THEN 0
    ELSE IF get_scraper_for_url_last(scrapers, url, i + 1) # 0
         THEN get_scraper_for_url_last(scrapers, url, i + 1)
         ELSE IF can_handle_url(scrapers[i], url) THEN i ELSE 0

\* get_scraper_for_url: the position of the scraper returned, scanning from
\* position i; 0 stands for None.
RECURSIVE get_scraper_for_url(_, _, _)
get_scraper_for_url(scrapers, url, i) ==
    IF i > Len(scrapers) THEN 0
    ELSE IF can_handle_url(scrapers[i], url) THEN i
    ELSE get_scraper_for_url(scrapers, url, i + 1)

\* Bound of the number of registered scrapers.
MaxScrapers == 3

ScraperKinds == {"Moxfield", "MTGGoldfish"}

MgrUrls ==
    { <<"h", "t", "t", "p", "s", ":", "/", "/", "m", "o", "x", "f", "i", "e", "l", "d", ".", "c", "o", "m", "/", "d", "e", "c", "k", "s", "/", "a">>, <<"h", "t", "t", "p", "s", ":", "/", "/", "w", "w", "w", ".", "M", "T", "G", "G", "o", "l", "d", "f", "i", "s", "h", ".", "c", "o", "m", "/", "d", "e", "c", "k", "/", "1">>,
      <<"h", "t", "t", "p", "s", ":", "/", "/", "e", "x", "a", "m", "p", "l", "e", ".", "o", "r", "g", "/", "d">>, <<"h", "t", "t", "p", "s", ":", "/", "/", "m", "o", "x", "f", "i", "e", "l", "d", ".", "c", "o", "m", "/", "d", "e", "c", "k", "s", "/", "a", "?", "r", "e", "f", "=", "m", "t", "g", "g", "o", "l", "d", "f", "i", "s", "h", ".", "c", "o", "m">> }

\* What a scraper's fetch_deck returns: a deck (tagged here with the scraper
\* that built it) or None.
NoDeck == [kind |-> "None", by |-> 0, site |-> ""]

MgrIdle == [scrapers |-> <<>>, pc |-> "idle", url |-> <<>>, calls |-> <<>>,
            result |-> NoDeck, raised |-> FALSE]

\* The module-level instance: deck_import_manager = DeckImportManager()
MgrInit == mgr = [MgrIdle EXCEPT !.pc = "ready"]

register_scraper(kind) ==
    /\ mgr.pc \in {"ready", "fetched"}
    /\ Len(mgr.scrapers) < MaxScrapers
    /\ mgr' = [mgr EXCEPT !.scrapers = Append(@, kind), !.pc = "ready"]

initialize_deck_importers ==
    /\ mgr.pc \in {"ready", "fetched"}
    /\ Len(mgr.scrapers) + 2 <= MaxScrapers
    /\ mgr' = [mgr EXCEPT !.scrapers = @ \o <<"Moxfield", "MTGGoldfish">>, !.pc = "ready"]

\* DeckImportManager.fetch_deck(url); found: whether the chosen scraper's
\* fetch_deck finds the deck (it returns None otherwise).
fetch_deck(url, found) ==
    /\ mgr.pc \in {"ready", "fetched"}
    /\ LET i == get_scraper_for_url(mgr.scrapers, url, 1)
           r == IF found THEN [kind |-> "deck", by |-> i, site |-> mgr.scrapers[i]]
                ELSE NoDeck
       IN  mgr' = [mgr EXCEPT
                !.pc = "fetched", !.url = url,
                !.calls = IF i = 0 THEN <<>> ELSE <<[scraper |-> i, returned |-> r]>>,
                !.result = IF i = 0 THEN NoDeck ELSE r,
                !.raised = FALSE]

MgrNext ==
    \/ \E k \in ScraperKinds : register_scraper(k)
    \/ initialize_deck_importers
    \/ \E u \in MgrUrls, found \in BOOLEAN : fetch_deck(u, found)

(***************************************************************************)
(* The scrapers' caches.  A cache file is absent, well-formed ("ok"), not  *)
(* parseable as JSON ("corrupt") or JSON of another shape ("noshape").     *)
(* The clock is read once per operation; time passes between operations.  *)
(***************************************************************************)

AbsentFile == [state |-> "absent", mtime |-> 0, data |-> <<>>]
File(state, mtime, data) == [state |-> state, mtime |-> mtime, data |-> data]

\* What an operation hands back: a list, None, or an exception.
Returned(value) == [kind |-> "value", value |-> value]
ReturnedNone == [kind |-> "None", value |-> <<>>]
Raised == [kind |-> "raised", value |-> <<>>]

Min2(a, b) == IF a < b THEN a ELSE b

(***************************************************************************)
(* MoxfieldScraper (importers/moxfield_scraper.py).                        *)
(***************************************************************************)

cache_max_age_hours == 24
page_size == 100

STR_commanderprecon == <<"c", "o", "m", "m", "a", "n", "d", "e", "r", "p", "r", "e", "c", "o", "n">>
STR_collectors_edition == <<"c", "o", "l", "l", "e", "c", "t", "o", "r", "'", "s", " ", "e", "d", "i", "t", "i", "o", "n">>
STR_deck_url == <<"h", "t", "t", "p", "s", ":", "/", "/", "m", "o", "x", "f", "i", "e", "l", "d", ".", "c", "o", "m", "/", "d", "e", "c", "k", "s", "/">>

IsDigit(c) == c \in {"0", "1", "2", "3", "4", "5", "6", "7", "8", "9"}

\* re.search(r"20\d{2}", name): the first match, "" when there is none.
RECURSIVE year_of(_)
year_of(name) ==
    IF Len(name) < 4 THEN <<>>
    ELSE IF name[1] = "2" /\ name[2] = "0" /\ IsDigit(name[3]) /\ IsDigit(name[4])
         THEN SubSeq(name, 1, 4)
         ELSE year_of(Tail(name))

\* The names of the commanders of a listing item, empty names left out.
RECURSIVE listing_commanders(_)
listing_commanders(cs) ==
    IF cs = <<>> THEN <<>>
    ELSE (IF get(get(Head(cs), "card", <<>>), "name", <<>>) # <<>>
          THEN <<get(get(Head(cs), "card", <<>>), "name", <<>>)>>
          ELSE <<>>)
         \o listing_commanders(Tail(cs))

MoxfieldDeck(name, url, commanders, description, year, format) ==
    [name |-> name, url |-> url, commanders |-> commanders,
     description |-> description, year |-> year, format |-> format,
     mainboard |-> <<>>, sideboard |-> <<>>]

\* The deck built from one listing item.
precon_of(item) ==
    MoxfieldDeck(get(item, "name", <<>>),
                 STR_deck_url \o get(item, "publicId", <<>>),
                 listing_commanders(get(item, "commanders", <<>>)),
                 get(item, "description", <<>>),
                 year_of(get(item, "name", <<>>)),
                 get(item, "format", <<>>))

\* A plausible slip: the format compared without lower-casing it.
is_precon_case_sensitive(item) == contains(get(item, "format", <<>>), STR_commanderprecon)

\* if "commanderprecon" in deck_data.get("format", "").lower()
is_precon(item) == contains(lower(get(item, "format", <<>>)), STR_commanderprecon)

\* if any(term in deck_name.lower() for term in ["collector's edition"])
is_collectors_edition(item) ==
    contains(lower(get(item, "name", <<>>)), STR_collectors_edition)

keeps_item(item) == is_precon(item) /\ ~is_collectors_edition(item)

\* The decks one page adds to all_decks.
precons_on_page(decks_on_page) ==
    LET kept == SelectSeq(decks_on_page, keeps_item)
    IN  [i \in 1..Len(kept) |-> precon_of(kept[i])]

\* The listing page the server returns for pageNumber = page.
listing_page(items, page) ==
    SubSeq(items, (page - 1) * page_size + 1, Min2(page * page_size, Len(items)))

\* A plausible slip: a failed request ends the loop like an empty page, so
\* that the decks of the earlier pages are kept.
RECURSIVE fetch_pages_keeps_partial(_, _, _, _, _)
fetch_pages_keeps_partial(items, page, fail, all_decks, requests) ==
    LET outcome == IF fail.at = page THEN fail.kind ELSE "ok"
        decks_on_page == listing_page(items, page)
        reqs == Append(requests, page)
    IN  IF outcome # "ok" \/ decks_on_page = <<>>
        THEN [ok |-> TRUE, decks |-> all_decks, requests |-> reqs]
        ELSE IF Len(decks_on_page) < page_size
        THEN [ok |-> TRUE, decks |-> all_decks \o precons_on_page(decks_on_page),
              requests |-> reqs]
        ELSE fetch_pages_keeps_partial(items, page + 1, fail,
                         all_decks \o precons_on_page(decks_on_page), reqs)

\* The while loop of fetch_all_precons from pageNumber = page on.  fail names
\* the request that does not succeed (at = 0: none) and how: "error" is a
\* transport error or a non-2xx status, "no_data" a JSON object without a
\* 'data' list.
RECURSIVE fetch_pages(_, _, _, _, _)
fetch_pages(items, page, fail, all_decks, requests) ==
    LET outcome == IF fail.at = page THEN fail.kind ELSE "ok"
        decks_on_page == listing_page(items, page)
        reqs == Append(requests, page)
    IN  IF outcome = "error"
        THEN [ok |-> FALSE, decks |-> all_decks, requests |-> reqs]
        ELSE IF outcome = "no_data" \/ decks_on_page = <<>>
        THEN [ok |-> TRUE, decks |-> all_decks, requests |-> reqs]
        ELSE IF Len(decks_on_page) < page_size
        THEN [ok |-> TRUE, decks |-> all_decks \o precons_on_page(decks_on_page),
              requests |-> reqs]
        ELSE fetch_pages(items, page + 1, fail,
                         all_decks \o precons_on_page(decks_on_page), reqs)

\* A plausible slip: an entry is valid up to and including max age.
mox_is_cache_valid_inclusive(file, now) ==
    /\ file.state # "absent"
    /\ file.mtime >= now - cache_max_age_hours * 3600

\* MoxfieldScraper._is_cache_valid
mox_is_cache_valid(file, now) ==
    /\ file.state # "absent"
    /\ file.mtime > now - cache_max_age_hours * 3600

\* MoxfieldScraper._load_cache
mox_load_cache(file, now) ==
    IF ~mox_is_cache_valid(file, now) THEN ReturnedNone
    ELSE IF file.state = "ok" THEN Returned(file.data)
    ELSE ReturnedNone

\* MoxfieldScraper._save_cache; an OSError of the write is swallowed.
mox_save_cache(file, decks, now, write_ok) ==
    IF write_ok THEN File("ok", now, decks) ELSE file

(***************************************************************************)
(* MTGJsonScraper (importers/mtgjson_scraper.py).                          *)
(***************************************************************************)

cache_duration == 86400
max_retries == 3
retry_delay == 1

RECURSIVE pow2(_)
pow2(n) == IF n = 0 THEN 1 ELSE 2 * pow2(n - 1)

DefaultMetadata ==
    [last_decklist_fetch |-> 0, fetched_decks |-> <<>>, cache_version |-> <<"1", ".", "0">>]

\* _init_cache_metadata: writes the default metadata when the file is missing.
init_cache_metadata(meta) ==
    IF meta.state = "absent" THEN File("ok", 0, DefaultMetadata) ELSE meta

\* _load_cache_metadata: the dictionary read and the file afterwards.  A file
\* that is not JSON is never rewritten by _init_cache_metadata, so the retry
\* recurses until RecursionError.
load_cache_metadata(meta) ==
    IF meta.state = "corrupt"
    THEN [raised |-> TRUE, metadata |-> <<>>, file |-> meta]
    ELSE [raised |-> FALSE, metadata |-> init_cache_metadata(meta).data,
          file |-> init_cache_metadata(meta)]

\* MTGJsonScraper._is_cache_valid
mtg_is_cache_valid(timestamp, now) == now - timestamp < cache_duration

\* What one attempt of _fetch_url can end in: the parsed document, one of
\* the exceptions the except clause names, or another exception of
\* urlopen / read / decode (a timeout while reading, a dropped connection,
\* bytes that are not UTF-8).
CaughtErrors == {"URLError", "HTTPError", "JSONDecodeError"}
OtherErrors == {"TimeoutError"}
AttemptOutcomes == {"ok"} \cup CaughtErrors \cup OtherErrors

\* _fetch_url from attempt number `attempt` (0-based) on, outcomes[i] being
\* what request i ends in: whether it returns, the requests made and the
\* delays slept.  An exception the except clause does not name leaves the
\* loop at once.
RECURSIVE fetch_url_attempts(_, _, _)
fetch_url_attempts(outcomes, attempt, sleeps) ==
    IF outcomes[attempt + 1] = "ok"
    THEN [ok |-> TRUE, attempts |-> attempt + 1, sleeps |-> sleeps]
    ELSE IF outcomes[attempt + 1] \notin CaughtErrors
    THEN [ok |-> FALSE, attempts |-> attempt + 1, sleeps |-> sleeps]
    ELSE IF attempt = max_retries - 1
    THEN [ok |-> FALSE, attempts |-> attempt + 1, sleeps |-> sleeps]
    ELSE fetch_url_attempts(outcomes, attempt + 1,
                            Append(sleeps, retry_delay * pow2(attempt)))

\* _fetch_url when the first `fails` requests fail with an exception the
\* except clause names and the next one succeeds.
RECURSIVE fetch_url(_, _, _)
fetch_url(attempt, fails, sleeps) ==
    IF attempt >= fails
    THEN [ok |-> TRUE, attempts |-> attempt + 1, sleeps |-> sleeps]
    ELSE IF attempt = max_retries - 1
    THEN [ok |-> FALSE, attempts |-> attempt + 1, sleeps |-> sleeps]
    ELSE fetch_url(attempt + 1, fails, Append(sleeps, retry_delay * pow2(attempt)))

\* json.load of the deck list cache followed by the MTGDeck wrapping; JSON
\* that is no list ("noshape": a number, null) cannot be iterated, and the
\* TypeError is not among the exceptions caught.
read_decklist(file) ==
    IF file.state = "ok" THEN Returned(file.data)
    ELSE IF file.state = "noshape" THEN Raised
    ELSE ReturnedNone

\* A plausible slip: the except branch reports the failure at once.
decklist_fallback_raises(file) == Raised

\* The except branch of fetch_deck_list: the cached list whatever its age,
\* or the exception.
decklist_fallback(file) ==
    IF read_decklist(file).kind = "value" THEN read_decklist(file) ELSE Raised

\* dict[key] = value
put(d, key, value) == [k \in DOMAIN d \cup {key} |-> IF k = key THEN value ELSE d[k]]

(***************************************************************************)
(* The scrapers' operations.  last keeps the arguments and the outcome of  *)
(* the last operation together with the clock and the disk it started on:  *)
(* fetched tells whether a fresh fetch was attempted, fault what went wrong *)
(* with it ("ok": nothing), write_fault which write failed after it        *)
(* ("none", "cache": the cache file, "meta": the metadata file).           *)
(***************************************************************************)

NoFail == [at |-> 0, kind |-> "ok"]

Outcome(self, op, force, file, result, fetched, fault, write_fault, requests, sleeps) ==
    [self |-> self, op |-> op, force |-> force, file |-> file, result |-> result,
     fetched |-> fetched, fault |-> fault, write_fault |-> write_fault,
     requests |-> requests, sleeps |-> sleeps,
     before |-> [now |-> clock.now, disk |-> disk]]

\* MoxfieldScraper.fetch_all_precons(force_refresh): what it returns, the
\* cache file afterwards and the pages requested.
fetch_all_precons_run(force_refresh, fail, write_ok) ==
    LET cached == mox_load_cache(disk.mox, clock.now)
        fresh == fetch_pages(server.mox_items, 1, fail, <<>>, <<>>)
        fault == IF \E i \in 1..Len(fresh.requests) : fresh.requests[i] = fail.at
                 THEN fail.kind ELSE "ok"
    IN  IF ~force_refresh /\ cached.kind = "value"
        THEN [result |-> cached, file |-> disk.mox, fetched |-> FALSE, fault |-> "ok",
              write_fault |-> "none", requests |-> <<>>]
        ELSE IF fresh.ok
        THEN [result |-> Returned(fresh.decks),
              file |-> mox_save_cache(disk.mox, fresh.decks, clock.now, write_ok),
              fetched |-> TRUE, fault |-> fault,
              write_fault |-> IF write_ok THEN "none" ELSE "cache",
              requests |-> fresh.requests]
        ELSE [result |-> IF cached.kind = "value" THEN cached ELSE Returned(<<>>),
              file |-> disk.mox, fetched |-> TRUE, fault |-> fault,
              write_fault |-> "none", requests |-> fresh.requests]

fetch_all_precons(force_refresh, fail, write_ok) ==
    /\ last.self = "MoxfieldScraper"
    /\ LET r == fetch_all_precons_run(force_refresh, fail, write_ok)
       IN  /\ disk' = [disk EXCEPT !.mox = r.file]
           /\ last' = Outcome("MoxfieldScraper", "fetch_all_precons", force_refresh, "",
                              r.result, r.fetched, r.fault, r.write_fault, r.requests, <<>>)
    /\ UNCHANGED <<clock, server>>

\* MTGJsonScraper.fetch_deck_list(force_refresh).  fails: how many requests
\* of _fetch_url fail before one succeeds; write_ok, meta_write_ok: whether
\* the deck list cache and the metadata file can be written.
fetch_deck_list_run(force_refresh, fails, write_ok, meta_write_ok) ==
    LET lm == load_cache_metadata(disk.meta)
        metadata == lm.metadata
        disk1 == [disk EXCEPT !.meta = lm.file]
        net == fetch_url(0, fails, <<>>)
        deck_list == get(server.decklist, "data", <<>>)
        written == File("ok", 0, deck_list)
        cache_first ==
            /\ ~force_refresh
            /\ mtg_is_cache_valid(metadata["last_decklist_fetch"], clock.now)
            /\ disk.decklist.state \in {"ok", "noshape"}
        quiet(result, d) ==
            [result |-> result, disk |-> d, fetched |-> FALSE, fault |-> "ok",
             write_fault |-> "none", requests |-> 0, sleeps |-> <<>>]
        loud(result, d) ==
            [result |-> result, disk |-> d, fetched |-> TRUE,
             fault |-> IF net.ok THEN "ok" ELSE "error",
             write_fault |-> IF ~net.ok THEN "none"
                             ELSE IF ~write_ok THEN "cache"
                             ELSE IF ~meta_write_ok THEN "meta" ELSE "none",
             requests |-> net.attempts, sleeps |-> net.sleeps]
    IN  IF lm.raised THEN quiet(Raised, disk)
        ELSE IF ~force_refresh /\ "last_decklist_fetch" \notin DOMAIN metadata
        THEN quiet(Raised, disk1)
        ELSE IF cache_first THEN quiet(read_decklist(disk.decklist), disk1)
        ELSE IF ~net.ok \/ ~write_ok THEN loud(decklist_fallback(disk.decklist), disk1)
        ELSE IF ~meta_write_ok
        THEN loud(decklist_fallback(written), [disk1 EXCEPT !.decklist = written])
        ELSE loud(Returned(deck_list),
                  [disk1 EXCEPT !.decklist = written,
                                !.meta = File("ok", 0, put(metadata, "last_decklist_fetch", clock.now))])

fetch_deck_list(force_refresh, fails, write_ok, meta_write_ok) ==
    /\ last.self = "MTGJsonScraper"
    /\ LET r == fetch_deck_list_run(force_refresh, fails, write_ok, meta_write_ok)
       IN  /\ disk' = r.disk
           /\ last' = Outcome("MTGJsonScraper", "fetch_deck_list", force_refresh, "",
                              r.result, r.fetched, r.fault, r.write_fault, r.requests, r.sleeps)
    /\ UNCHANGED <<clock, server>>

\* A plausible slip: the deck file is served only while it is younger than
\* cache_duration, like the deck list.
details_cache_hit_while_young(force_refresh, cache_file) ==
    /\ ~force_refresh
    /\ cache_file.state = "ok"
    /\ mtg_is_cache_valid(cache_file.mtime, clock.now)

\* fetch_deck_details: the cached deck file is served when the call is not
\* forced and the file exists and parses; its age is not looked at.
details_cache_hit(force_refresh, cache_file) ==
    ~force_refresh /\ cache_file.state = "ok"

\* MTGJsonScraper.fetch_deck_details(deck_filename, force_refresh)
fetch_deck_details_run(deck_filename, force_refresh, fails, write_ok, meta_write_ok) ==
    LET lm == load_cache_metadata(disk.meta)
        metadata == lm.metadata
        disk1 == [disk EXCEPT !.meta = lm.file]
        cache_file == disk.details[deck_filename]
        net == fetch_url(0, fails, <<>>)
        deck_data == server.details[deck_filename]
        disk2 == [disk1 EXCEPT !.details[deck_filename] = File("ok", 0, deck_data)]
        quiet(result, d) ==
            [result |-> result, disk |-> d, fetched |-> FALSE, fault |-> "ok",
             write_fault |-> "none", requests |-> 0, sleeps |-> <<>>]
        loud(result, d) ==
            [result |-> result, disk |-> d, fetched |-> TRUE,
             fault |-> IF net.ok THEN "ok" ELSE "error",
             write_fault |-> IF ~net.ok THEN "none"
                             ELSE IF ~write_ok THEN "cache"
                             ELSE IF ~meta_write_ok THEN "meta" ELSE "none",
             requests |-> net.attempts, sleeps |-> net.sleeps]
    IN  IF lm.raised THEN quiet(Raised, disk)
        ELSE IF details_cache_hit(force_refresh, cache_file)
        THEN quiet(Returned(cache_file.data), disk1)
        ELSE IF ~net.ok \/ ~write_ok THEN loud(ReturnedNone, disk1)
        ELSE IF "fetched_decks" \notin DOMAIN metadata \/ ~meta_write_ok
        THEN loud(ReturnedNone, disk2)
        ELSE loud(Returned(deck_data),
                  [disk2 EXCEPT !.meta = File("ok", 0,
                        put(metadata, "fetched_decks",
                            put(metadata["fetched_decks"], deck_filename, clock.now)))])

fetch_deck_details(deck_filename, force_refresh, fails, write_ok, meta_write_ok) ==
    /\ last.self = "MTGJsonScraper"
    /\ LET r == fetch_deck_details_run(deck_filename, force_refresh, fails, write_ok, meta_write_ok)
       IN  /\ disk' = r.disk
           /\ last' = Outcome("MTGJsonScraper", "fetch_deck_details", force_refresh,
                              deck_filename, r.result, r.fetched, r.fault, r.write_fault, r.requests, r.sleeps)
    /\ UNCHANGED <<clock, server>>

\* MTGJsonScraper.clear_cache
clear_cache ==
    /\ last.self = "MTGJsonScraper"
    /\ disk' = [disk EXCEPT !.decklist = AbsentFile,
                            !.details = [f \in DOMAIN disk.details |-> AbsentFile],
                            !.meta = init_cache_metadata(disk.meta)]
    /\ last' = Outcome("MTGJsonScraper", "clear_cache", FALSE, "", ReturnedNone, FALSE, "ok", "none", 0, <<>>)
    /\ UNCHANGED <<clock, server>>

\* Bounds: how often time passes between operations, and the full pages of
\* the largest Moxfield listing.
MaxTicks == 2
MaxFullPages == 2

\* A second passes.
Tick ==
    /\ clock.ticks < MaxTicks
    /\ clock' = [now |-> clock.now + 1, ticks |-> clock.ticks + 1]
    /\ UNCHANGED <<disk, server, last>>

DeckFiles == {"Deck_C18.json"}

FailPoints ==
    {NoFail} \cup {[at |-> k, kind |-> kd] : k \in 1..(MaxFullPages + 1), kd \in {"error", "no_data"}}

\* What the network and the file system do to one MTGJSON operation: how
\* many requests fail, and whether the cache file and the metadata file can
\* be written (a write is attempted only after a successful fetch, the
\* metadata write only after the cache write).
Surroundings ==
    {e \in [fails : 0..max_retries, write_ok : BOOLEAN, meta_write_ok : BOOLEAN] :
        /\ e.fails = max_retries => e.write_ok
        /\ ~e.write_ok => e.meta_write_ok}

CacheNext ==
    \/ \E force \in BOOLEAN, fail \in FailPoints, w \in BOOLEAN :
        fetch_all_precons(force, fail, w)
    \/ \E force \in BOOLEAN, e \in Surroundings :
        fetch_deck_list(force, e.fails, e.write_ok, e.meta_write_ok)
    \/ \E f \in DeckFiles, force \in BOOLEAN, e \in Surroundings :
        fetch_deck_details(f, force, e.fails, e.write_ok, e.meta_write_ok)
    \/ clear_cache
    \/ Tick

\* Listing items of the Moxfield account.
ListingItem(kind, i) ==
    CASE kind = "precon" ->
            [format |-> <<"c", "o", "m", "m", "a", "n", "d", "e", "r", "P", "r", "e", "c", "o", "n">>, name |-> <<"P", " ", "2", "0", "2", "1">>, publicId |-> str_int(i),
             commanders |-> <<[card |-> [name |-> <<"K">>]], [card |-> [id |-> <<"x">>]]>>]
      [] kind = "collector" ->
            [format |-> <<"c", "o", "m", "m", "a", "n", "d", "e", "r", "P", "r", "e", "c", "o", "n">>, name |-> <<"P", " ", "C", "o", "l", "l", "e", "c", "t", "o", "r", "'", "s", " ", "E", "d", "i", "t", "i", "o", "n">>,
             publicId |-> str_int(i)]
      [] kind = "plain" ->
            [name |-> <<"N">>, publicId |-> str_int(i)]
      [] OTHER ->
            [format |-> <<"m", "o", "d", "e", "r", "n">>, name |-> <<"M">>, publicId |-> str_int(i)]

\* A listing of n items: the kind of item i is fixed by its position.
Listing(n, pattern) ==
    [i \in 1..n |->
        IF pattern = 1
        THEN ListingItem(IF i \in {7, 107} THEN "collector"
                         ELSE IF i \in {1, 2, 50, 99, 100, 101, 102, 120, 149, 150}
                              THEN "precon" ELSE "other", i)
        ELSE ListingItem(IF i % 90 = 0 THEN "collector"
                         ELSE IF i % 40 = 1 THEN "precon"
                         ELSE IF i % 40 = 2 THEN "plain" ELSE "other", i)]

ListingSizes ==
    {0, 1, page_size - 1, page_size + 50} \cup {k * page_size : k \in 1..MaxFullPages}

\* What an earlier run left in the caches.
OldPrecons == <<MoxfieldDeck(<<"O", "l", "d">>, STR_deck_url \o <<"0">>, <<>>, <<>>, <<>>, <<"c", "o", "m", "m", "a", "n", "d", "e", "r", "P", "r", "e", "c", "o", "n">>)>>
OldDeckList == <<[name |-> <<"O", "l", "d">>, code |-> <<"C", "1", "3">>]>>
NewDeckList == <<[name |-> <<"N", "e", "w">>, code |-> <<"C", "1", "8">>], [name |-> <<"O", "l", "d">>, code |-> <<"C", "1", "3">>]>>
OldDetails == <<[name |-> <<"O", "l", "d">>]>>
NewDetails == <<[name |-> <<"N", "e", "w">>]>>

IdleDisk ==
    [mox |-> AbsentFile, meta |-> AbsentFile, decklist |-> AbsentFile,
     details |-> [f \in DeckFiles |-> AbsentFile]]

IdleServer == [mox_items |-> <<>>, decklist |-> <<>>, details |-> <<>>]

\* The clock at construction, and the time one second less than a day before.
Now0 == 2 * cache_duration
AlmostADayAgo == Now0 - (cache_duration - 1)

ClockInit == clock = [now |-> Now0, ticks |-> 0]

LastInit(self) ==
    last = [self |-> self, op |-> "none", force |-> FALSE, file |-> "",
            result |-> ReturnedNone, fetched |-> FALSE, fault |-> "ok", write_fault |-> "none",
            requests |-> <<>>,
            sleeps |-> <<>>, before |-> [now |-> 0, disk |-> IdleDisk]]

\* The cache files an earlier run of the Moxfield scraper can have left.
OldPreconFiles ==
    {AbsentFile} \cup {File(s, AlmostADayAgo, OldPrecons) : s \in {"ok", "corrupt", "noshape"}}

\* A MoxfieldScraper after construction.
MoxfieldInit(files, listings) ==
    /\ ClockInit
    /\ LastInit("MoxfieldScraper")
    /\ \E f \in files : disk = [IdleDisk EXCEPT !.mox = f]
    /\ \E items \in listings :
        server = [IdleServer EXCEPT !.mox_items = items]

\* The deck list cache and the deck file an earlier run of the MTGJSON
\* scraper can have left: one of the two, or neither.
OldMTGJsonCaches ==
    {[decklist |-> File(s, 0, OldDeckList), details |-> AbsentFile] :
        s \in {"ok", "corrupt", "noshape"}}
    \cup {[decklist |-> AbsentFile, details |-> d] :
            d \in {AbsentFile, File("ok", 0, OldDetails), File("corrupt", 0, OldDetails)}}

\* An MTGJsonScraper after construction (__init__ has run
\* _init_cache_metadata, so the metadata file exists).
MTGJsonInit ==
    /\ ClockInit
    /\ LastInit("MTGJsonScraper")
    /\ \E m \in {File("ok", 0, DefaultMetadata),
                 File("ok", 0, [DefaultMetadata EXCEPT !.last_decklist_fetch = AlmostADayAgo]),
                 File("corrupt", 0, <<>>),
                 File("noshape", 0, [cache_version |-> <<"0", ".", "9">>])},
          c \in OldMTGJsonCaches :
        disk = [IdleDisk EXCEPT !.meta = m, !.decklist = c.decklist,
                                !.details = [f \in DeckFiles |-> c.details]]
    /\ \E resp \in {[data |-> NewDeckList], [meta |-> <<"v", "5">>]} :
        server = [IdleServer EXCEPT !.decklist = resp,
                                    !.details = [f \in DeckFiles |-> NewDetails]]

(***************************************************************************)
(* MTGGoldfishImportScraper (importers/mtggoldfish_import.py).             *)
(***************************************************************************)

UpperChar(c) ==
    CASE c = "a" -> "A" [] c = "b" -> "B" [] c = "c" -> "C" [] c = "d" -> "D"
      [] c = "e" -> "E" [] c = "f" -> "F" [] c = "g" -> "G" [] c = "h" -> "H"
      [] c = "i" -> "I" [] c = "j" -> "J" [] c = "k" -> "K" [] c = "l" -> "L"
      [] c = "m" -> "M" [] c = "n" -> "N" [] c = "o" -> "O" [] c = "p" -> "P"
      [] c = "q" -> "Q" [] c = "r" -> "R" [] c = "s" -> "S" [] c = "t" -> "T"
      [] c = "u" -> "U" [] c = "v" -> "V" [] c = "w" -> "W" [] c = "x" -> "X"
      [] c = "y" -> "Y" [] c = "z" -> "Z" [] OTHER -> c

IsCased(c) == LowerChar(c) # c \/ UpperChar(c) # c

\* str.title()
title(s) ==
    [i \in 1..Len(s) |->
        IF i > 1 /\ IsCased(s[i - 1]) THEN LowerChar(s[i]) ELSE UpperChar(s[i])]

\* str.replace("-", " ")
dashes_to_spaces(s) == [i \in 1..Len(s) |-> IF s[i] = "-" THEN " " ELSE s[i]]

\* str.isdigit()
isdigit(s) == s # <<>> /\ \A i \in 1..Len(s) : IsDigit(s[i])

last_part(parts) == parts[Len(parts)]

STR_deck_path == <<"/", "d", "e", "c", "k", "/">>
STR_archetype_path == <<"/", "a", "r", "c", "h", "e", "t", "y", "p", "e", "/">>
STR_import_failed == <<" ", "(", "I", "m", "p", "o", "r", "t", " ", "F", "a", "i", "l", "e", "d", ")">>
STR_Name_prefix == <<"N", "a", "m", "e", " ">>

SampleCard(quantity, name) ==
    [quantity |-> quantity, name |-> name, set |-> <<>>, collector_number |-> <<>>,
     scryfall_id |-> <<>>]

\* _create_sample_cards(deck_format)
create_sample_cards(deck_format) ==
    IF lower(deck_format) = STR_commander
    THEN << SampleCard(1, <<"S", "o", "l", " ", "R", "i", "n", "g">>), SampleCard(1, <<"C", "o", "m", "m", "a", "n", "d", " ", "T", "o", "w", "e", "r">>),
            SampleCard(1, <<"L", "i", "g", "h", "t", "n", "i", "n", "g", " ", "B", "o", "l", "t">>), SampleCard(1, <<"C", "o", "u", "n", "t", "e", "r", "s", "p", "e", "l", "l">>),
            SampleCard(36, <<"B", "a", "s", "i", "c", " ", "L", "a", "n", "d", " ", "(", "M", "i", "x", "e", "d", ")">>) >>
    ELSE << SampleCard(4, <<"L", "i", "g", "h", "t", "n", "i", "n", "g", " ", "B", "o", "l", "t">>), SampleCard(4, <<"C", "o", "u", "n", "t", "e", "r", "s", "p", "e", "l", "l">>),
            SampleCard(4, <<"B", "r", "a", "i", "n", "s", "t", "o", "r", "m">>), SampleCard(24, <<"B", "a", "s", "i", "c", " ", "L", "a", "n", "d", " ", "(", "M", "i", "x", "e", "d", ")">>) >>

UniversalDeck(name, url, format, description, mainboard, sideboard, commanders) ==
    [name |-> name, url |-> url, format |-> format, description |-> description,
     mainboard |-> mainboard, sideboard |-> sideboard, commanders |-> commanders]

\* _create_placeholder_deck(url)
create_placeholder_deck(url) ==
    UniversalDeck(
        IF contains(url, STR_deck_path)
        THEN title(dashes_to_spaces(split(last_part(split(url, STR_deck_path)), <<"#">>)[1]))
             \o STR_import_failed
        ELSE IF contains(url, STR_archetype_path)
        THEN title(dashes_to_spaces(split(last_part(split(url, STR_archetype_path)), <<"#">>)[1]))
             \o STR_import_failed
        ELSE <<"M", "T", "G", "G", "o", "l", "d", "f", "i", "s", "h", " ", "D", "e", "c", "k", " ", "(", "I", "m", "p", "o", "r", "t", " ", "F", "a", "i", "l", "e", "d", ")">>,
        url, STR_unknown,
        <<"T", "h", "i", "s", " ", "i", "s", " ", "a", " ", "p", "l", "a", "c", "e", "h", "o", "l", "d", "e", "r", " ", "d", "e", "c", "k", ".", " ", "M", "T", "G", "G", "o", "l", "d", "f", "i", "s", "h", " ", "s", "c", "r", "a", "p", "i", "n", "g", " ", "e", "n", "c", "o", "u", "n", "t", "e", "r", "e", "d", " ", "i", "s", "s", "u", "e", "s", ".">>,
        create_sample_cards(STR_standard), <<>>, <<>>)

\* _extract_deck_id(url); archetype_id: what _extract_deck_from_archetype
\* finds on the archetype page (None: no deck link, a failed request).
extract_deck_id(url, archetype_id) ==
    IF contains(url, STR_deck_path)
    THEN LET deck_id == split(split(last_part(split(url, STR_deck_path)), <<"#">>)[1], <<"?">>)[1]
         IN  IF isdigit(deck_id) THEN deck_id ELSE None
    ELSE IF contains(url, STR_archetype_path) THEN archetype_id
    ELSE None

\* re.sub(r"\s*\([^)]*\)\s*$", "", name): a trailing parenthesised note and
\* the blanks around it are removed.
strip_trailing_parens(name) ==
    LET t == rstrip(name)
        closers == {i \in 1..(Len(t) - 1) : t[i] = ")"}
        seg_start == IF closers = {} THEN 1
                     ELSE (CHOOSE i \in closers : \A j \in closers : j <= i) + 1
        openers == {i \in seg_start..(Len(t) - 1) : t[i] = "("}
    IN  IF t = <<>> \/ t[Len(t)] # ")" \/ openers = {} THEN name
        ELSE rstrip(SubSeq(t, 1, (CHOOSE i \in openers : \A j \in openers : i <= j) - 1))

\* _clean_arena_card_name(name)
clean_arena_card_name(name) ==
    IF name = <<>> THEN <<>>
    ELSE LET n1 == strip(strip_trailing_parens(name))
             n2 == IF contains(n1, SLASHES) THEN strip(split(n1, SLASHES)[1]) ELSE n1
         IN  IF Len(n2) < 2 \/ Len(n2) > 50 THEN <<>> ELSE n2

\* re.match(r"(\d+)\s+(.+)", line) for a stripped line: the digits and the
\* rest, or no match.
RECURSIVE leading_digits(_)
leading_digits(s) ==
    IF s # <<>> /\ IsDigit(Head(s)) THEN <<Head(s)>> \o leading_digits(Tail(s)) ELSE <<>>

card_match(line) ==
    LET digits == leading_digits(line)
        rest == SubSeq(line, Len(digits) + 1, Len(line))
    IN  IF digits # <<>> /\ rest # <<>> /\ IsSpace(Head(rest)) /\ lstrip(rest) # <<>>
        THEN [matched |-> TRUE, quantity |-> int_str(digits), name |-> strip(lstrip(rest))]
        ELSE [matched |-> FALSE, quantity |-> 0, name |-> <<>>]

\* A plausible slip: the 'Deck' header is not recognised, so that the cards
\* after the commander stay in the commander section.
RECURSIVE parse_arena_lines_without_deck_header(_, _)
parse_arena_lines_without_deck_header(lines, acc) ==
    IF lines = <<>> THEN acc
    ELSE LET line == strip(Head(lines))
             m == card_match(line)
             clean_name == clean_arena_card_name(m.name)
             entry == SampleCard(m.quantity, clean_name)
         IN  parse_arena_lines_without_deck_header(Tail(lines),
                IF line = <<>> THEN acc
                ELSE IF startswith(line, STR_Name_prefix)
                THEN [acc EXCEPT !.deck_name = strip(SubSeq(line, 6, Len(line)))]
                ELSE IF lower(line) = STR_commander
                THEN [acc EXCEPT !.current_section = "commander"]
                ELSE IF lower(line) = <<"s", "i", "d", "e", "b", "o", "a", "r", "d">>
                THEN [acc EXCEPT !.current_section = "sideboard"]
                ELSE IF ~m.matched \/ clean_name = <<>> THEN acc
                ELSE IF acc.current_section = "commander"
                THEN [acc EXCEPT !.commanders = Append(@, clean_name)]
                ELSE IF acc.current_section = "sideboard"
                THEN [acc EXCEPT !.sideboard = Append(@, entry)]
                ELSE [acc EXCEPT !.mainboard = Append(@, entry)])

\* The loop of _parse_arena_format over the lines that are left.
RECURSIVE parse_arena_lines(_, _)
parse_arena_lines(lines, acc) ==
    IF lines = <<>> THEN acc
    ELSE LET line == strip(Head(lines))
             m == card_match(line)
             clean_name == clean_arena_card_name(m.name)
             entry == SampleCard(m.quantity, clean_name)
         IN  parse_arena_lines(Tail(lines),
                IF line = <<>> THEN acc
                ELSE IF startswith(line, STR_Name_prefix)
                THEN [acc EXCEPT !.deck_name = strip(SubSeq(line, 6, Len(line)))]
                ELSE IF lower(line) = STR_commander
                THEN [acc EXCEPT !.current_section = "commander"]
                ELSE IF lower(line) = <<"d", "e", "c", "k">>
                THEN [acc EXCEPT !.current_section = "mainboard"]
                ELSE IF lower(line) = <<"s", "i", "d", "e", "b", "o", "a", "r", "d">>
                THEN [acc EXCEPT !.current_section = "sideboard"]
                ELSE IF ~m.matched \/ clean_name = <<>> THEN acc
                ELSE IF acc.current_section = "commander"
                THEN [acc EXCEPT !.commanders = Append(@, clean_name)]
                ELSE IF acc.current_section = "sideboard"
                THEN [acc EXCEPT !.sideboard = Append(@, entry)]
                ELSE [acc EXCEPT !.mainboard = Append(@, entry)])

\* _parse_arena_format(content, original_url)
parse_arena_format(content, original_url) ==
    LET p == parse_arena_lines(split(content, <<"\n">>),
                [deck_name |-> <<"M", "T", "G", "G", "o", "l", "d", "f", "i", "s", "h", " ", "D", "e", "c", "k">>, commanders |-> <<>>,
                 mainboard |-> <<>>, sideboard |-> <<>>, current_section |-> "mainboard"])
    IN  UniversalDeck(p.deck_name, original_url,
                      IF p.commanders # <<>> THEN STR_commander ELSE STR_standard,
                      <<"I", "m", "p", "o", "r", "t", "e", "d", " ", "f", "r", "o", "m", " ", "M", "T", "G", "G", "o", "l", "d", "f", "i", "s", "h", " ", "u", "s", "i", "n", "g", " ", "A", "r", "e", "n", "a", " ", "f", "o", "r", "m", "a", "t">>,
                      p.mainboard, p.sideboard, p.commanders)

\* fetch_deck(url).  response: the answer to the request for the Arena export
\* page: an exception, or a status and a page with or without a textarea.
goldfish_fetch_deck(url, archetype_id, response) ==
    IF extract_deck_id(url, archetype_id) = None THEN create_placeholder_deck(url)
    ELSE IF response.exception THEN create_placeholder_deck(url)
    ELSE IF response.status # 200 THEN create_placeholder_deck(url)
    ELSE IF ~response.has_textarea THEN create_placeholder_deck(url)
    ELSE IF strip(response.textarea) = <<>> THEN create_placeholder_deck(url)
    ELSE parse_arena_format(strip(response.textarea), url)

GfUrls ==
    { <<"h", "t", "t", "p", "s", ":", "/", "/", "w", "w", "w", ".", "m", "t", "g", "g", "o", "l", "d", "f", "i", "s", "h", ".", "c", "o", "m", "/", "d", "e", "c", "k", "/", "3", "0", "0", "4", "9", "9", "#", "p", "a", "p", "e", "r">>,
      <<"h", "t", "t", "p", "s", ":", "/", "/", "w", "w", "w", ".", "m", "t", "g", "g", "o", "l", "d", "f", "i", "s", "h", ".", "c", "o", "m", "/", "a", "r", "c", "h", "e", "t", "y", "p", "e", "/", "i", "z", "z", "e", "t", "-", "w", "o", "e", "#", "p", "a", "p", "e", "r">>,
      <<"h", "t", "t", "p", "s", ":", "/", "/", "w", "w", "w", ".", "m", "t", "g", "g", "o", "l", "d", "f", "i", "s", "h", ".", "c", "o", "m", "/", "d", "e", "c", "k", "/", "m", "y", "-", "l", "i", "s", "t">>,
      <<"h", "t", "t", "p", "s", ":", "/", "/", "w", "w", "w", ".", "m", "t", "g", "g", "o", "l", "d", "f", "i", "s", "h", ".", "c", "o", "m", "/", "m", "e", "t", "a", "g", "a", "m", "e">> }

GfTextareas ==
    { <<"D", "e", "c", "k", "\n", "4", " ", "B", "o", "l", "t", "\n", "2", " ", "F", "i", "r", "e", " ", "/", "/", " ", "I", "c", "e", " ", "(", "S", "E", "T", ")", " ", "1", "2", "\n", "S", "i", "d", "e", "b", "o", "a", "r", "d", "\n", "3", " ", "D", "u", "r", "e", "s", "s">>,
      <<"N", "a", "m", "e", " ", "I", "z", "z", "e", "t", "\n", "C", "o", "m", "m", "a", "n", "d", "e", "r", "\n", "1", " ", "N", "i", "v", " ", "M", "i", "z", "z", "e", "t", "\n", "D", "e", "c", "k", "\n", "1", " ", "S", "o", "l", " ", "R", "i", "n", "g", " ", "(", "C", "1", "8", ")">>,
      <<"A", "b", "o", "u", "t", "\n", "N", "a", "m", "e", " ", "I", "z", "z", "e", "t">>,
      <<"n", "o", " ", "c", "a", "r", "d", "s", " ", "h", "e", "r", "e">>,
      <<"4", " ", "A", "\n", "1", "2", "\n", "3", " ", "(", "p", "r", "o", "m", "o", ")">>,
      <<"S", "i", "d", "e", "b", "o", "a", "r", "d", "\n", "2", " ", "D", "u", "r", "e", "s", "s">>,
      <<" ", "\n", " ">>,
      <<"2", " ", "O", "p", "t", "\n", "C", "O", "M", "M", "A", "N", "D", "E", "R", "\n", "1", " ", "N", "i", "v", "\n", "d", "e", "c", "k", "\n", "4", " ", "B", "o", "l", "t", "\n", "N", "a", "m", "e", " ", "I", "z", "\n", "S", "i", "d", "e", "b", "o", "a", "r", "d", "\n", "3", " ", "W", "e", "b", "\n", "D", "e", "c", "k", "\n", "1", " ", "B", "o", "g">>,
      <<>> }

GfResponses ==
    { [exception |-> TRUE, status |-> 0, has_textarea |-> FALSE, textarea |-> <<>>],
      [exception |-> FALSE, status |-> 404, has_textarea |-> FALSE, textarea |-> <<>>],
      [exception |-> FALSE, status |-> 200, has_textarea |-> FALSE, textarea |-> <<>>] }
    \cup { [exception |-> FALSE, status |-> 200, has_textarea |-> TRUE, textarea |-> t] :
            t \in GfTextareas }

\* _extract_card_lists, Method 1: the table rows of the rendered page whose
\* first cell is a quantity from 1 to 20 and whose second cell is a name.
\* fetch_deck does not call it.
extract_card_lists(rows) ==
    SelectSeq(rows, LAMBDA r : r.name # <<>> /\ r.quantity >= 1 /\ r.quantity <= 20)

\* The card rows in the tables of the rendered deck page.
GfPages ==
    { <<>>,
      <<[quantity |-> 4, name |-> <<"L", "i", "g", "h", "t", "n", "i", "n", "g", " ", "B", "o", "l", "t">>], [quantity |-> 0, name |-> <<"T", "o", "t", "a", "l">>]>> }

NoUniversalDeck == UniversalDeck(<<>>, <<>>, <<>>, <<>>, <<>>, <<>>, <<>>)

GfIdle ==
    [pc |-> "idle", url |-> <<>>, archetype_id |-> None,
     response |-> [exception |-> FALSE, status |-> 0, has_textarea |-> FALSE, textarea |-> <<>>],
     page |-> <<>>, result |-> NoUniversalDeck]

GfInit ==
    \E u \in GfUrls, a \in {None, <<"7", "4", "3", "2", "8", "4", "2">>}, r \in GfResponses,
       p \in GfPages :
        gf = [pc |-> "ready", url |-> u, archetype_id |-> a, response |-> r,
              page |-> p, result |-> NoUniversalDeck]

GfFetchDeck ==
    /\ gf.pc = "ready"
    /\ gf' = [gf EXCEPT !.pc = "fetched",
                        !.result = goldfish_fetch_deck(gf.url, gf.archetype_id, gf.response)]

(***************************************************************************)
(* DeckFilters.infer_format (utils/deck_filters.py).                       *)
(***************************************************************************)

\* FORMAT_INDICATORS, in the order the dictionary is written.
FORMAT_INDICATORS ==
    << [format |-> <<"S", "t", "a", "n", "d", "a", "r", "d">>, indicators |-> <<<<"S", "t", "a", "n", "d", "a", "r", "d">>, <<"C", "h", "a", "l", "l", "e", "n", "g", "e", "r", " ", "D", "e", "c", "k">>, <<"I", "n", "t", "r", "o", " ", "P", "a", "c", "k">>>>],
       [format |-> <<"M", "o", "d", "e", "r", "n">>, indicators |-> <<<<"M", "o", "d", "e", "r", "n", " ", "E", "v", "e", "n", "t", " ", "D", "e", "c", "k">>, <<"M", "o", "d", "e", "r", "n">>>>],
       [format |-> <<"L", "e", "g", "a", "c", "y">>, indicators |-> <<<<"L", "e", "g", "a", "c", "y">>, <<"P", "r", "e", "m", "i", "u", "m", " ", "D", "e", "c", "k">>>>],
       [format |-> <<"V", "i", "n", "t", "a", "g", "e">>, indicators |-> <<<<"V", "i", "n", "t", "a", "g", "e">>>>],
       [format |-> <<"C", "o", "m", "m", "a", "n", "d", "e", "r">>, indicators |-> <<<<"C", "o", "m", "m", "a", "n", "d", "e", "r", " ", "D", "e", "c", "k">>, <<"C", "o", "m", "m", "a", "n", "d", "e", "r">>>>],
       [format |-> <<"P", "i", "o", "n", "e", "e", "r">>, indicators |-> <<<<"P", "i", "o", "n", "e", "e", "r", " ", "C", "h", "a", "l", "l", "e", "n", "g", "e", "r", " ", "D", "e", "c", "k">>>>],
       [format |-> <<"H", "i", "s", "t", "o", "r", "i", "c">>, indicators |-> <<<<"H", "i", "s", "t", "o", "r", "i", "c">>, <<"A", "r", "e", "n", "a">>>>],
       [format |-> <<"L", "i", "m", "i", "t", "e", "d">>, indicators |-> <<<<"J", "u", "m", "p", "s", "t", "a", "r", "t">>, <<"C", "u", "b", "e">>, <<"D", "r", "a", "f", "t">>>>] >>

STR_Unknown == <<"U", "n", "k", "n", "o", "w", "n">>

\* any(indicator.lower() in deck_type.lower() for indicator in indicators)
indicator_matches(indicators, deck_type) ==
    \E i \in 1..Len(indicators) : contains(lower(deck_type), lower(indicators[i]))

\* The format of the first table entry with a matching indicator, from
\* entry i on; "" when none matches.
RECURSIVE table_format(_, _)
table_format(i, deck_type) ==
    IF i > Len(FORMAT_INDICATORS) THEN <<>>
    ELSE IF indicator_matches(FORMAT_INDICATORS[i].indicators, deck_type)
         THEN FORMAT_INDICATORS[i].format
         ELSE table_format(i + 1, deck_type)

\* infer_format(deck_data): the string returned, or the exception.  A field
\* that is None has no lower(), no startswith() and no "in".
infer_format(deck_data) ==
    LET deck_type == get(deck_data, "type", <<>>)
        deck_name == get(deck_data, "name", <<>>)
        set_code == get(deck_data, "code", <<>>)
    IN  IF deck_type = None THEN Raised
        ELSE IF table_format(1, deck_type) # <<>> THEN Returned(table_format(1, deck_type))
        ELSE IF deck_name = None THEN Raised
        ELSE IF contains(deck_name, <<"C", "o", "m", "m", "a", "n", "d", "e", "r">>) THEN Returned(<<"C", "o", "m", "m", "a", "n", "d", "e", "r">>)
        ELSE IF set_code = None THEN Raised
        ELSE IF startswith(set_code, <<"C">>) THEN Returned(<<"C", "o", "m", "m", "a", "n", "d", "e", "r">>)
        ELSE IF contains(deck_name, <<"S", "t", "a", "n", "d", "a", "r", "d">>) THEN Returned(<<"S", "t", "a", "n", "d", "a", "r", "d">>)
        ELSE IF contains(deck_name, <<"M", "o", "d", "e", "r", "n">>) THEN Returned(<<"M", "o", "d", "e", "r", "n">>)
        ELSE IF contains(deck_name, <<"L", "e", "g", "a", "c", "y">>) THEN Returned(<<"L", "e", "g", "a", "c", "y">>)
        ELSE IF contains(deck_name, <<"P", "i", "o", "n", "e", "e", "r">>) THEN Returned(<<"P", "i", "o", "n", "e", "e", "r">>)
        ELSE Returned(STR_Unknown)

\* The values a field of a deck record takes; Missing: the key is absent.
Missing == <<"Missing">>

InfTypes ==
    { Missing, None, <<>>, <<"C", "o", "m", "m", "a", "n", "d", "e", "r", " ", "D", "e", "c", "k">>, <<"M", "o", "d", "e", "r", "n", " ", "E", "v", "e", "n", "t", " ", "D", "e", "c", "k">>, <<"P", "i", "o", "n", "e", "e", "r", " ", "C", "h", "a", "l", "l", "e", "n", "g", "e", "r", " ", "D", "e", "c", "k">>,
      <<"P", "r", "e", "m", "i", "u", "m", " ", "D", "e", "c", "k">>, <<"T", "h", "e", "m", "e", " ", "D", "e", "c", "k">>, <<"c", "h", "a", "l", "l", "e", "n", "g", "e", "r", " ", "d", "e", "c", "k">>, <<"D", "u", "e", "l", " ", "D", "e", "c", "k">> }

InfNames ==
    { Missing, None, <<>>, <<"C", "o", "m", "m", "a", "n", "d", "e", "r", " ", "2", "0", "1", "8">>, <<"M", "o", "d", "e", "r", "n", " ", "M", "a", "s", "t", "e", "r", "s">>, <<"S", "t", "a", "n", "d", "a", "r", "d", " ", "B", "e", "a", "r", "e", "r">>,
      <<"L", "e", "g", "a", "c", "y", " ", "o", "f", " ", "X">>, <<"P", "i", "o", "n", "e", "e", "r", " ", "P", "a", "c", "k">>, <<"H", "e", "a", "v", "e", "n", "l", "y", " ", "I", "n", "f", "e", "r", "n", "o">> }

InfCodes == { Missing, None, <<>>, <<"C", "1", "8">>, <<"M", "M", "2">>, <<"c", "1", "8">> }

DeckRecord(t, n, c) ==
    LET keys == {k \in {"type", "name", "code"} :
                    (k = "type" /\ t # Missing) \/ (k = "name" /\ n # Missing)
                    \/ (k = "code" /\ c # Missing)}
    IN  [k \in keys |-> IF k = "type" THEN t ELSE IF k = "name" THEN n ELSE c]

InfIdle == [pc |-> "idle", deck_data |-> <<>>, result |-> ReturnedNone]

InfInit ==
    \E t \in InfTypes, n \in InfNames, c \in InfCodes :
        inf = [pc |-> "ready", deck_data |-> DeckRecord(t, n, c), result |-> ReturnedNone]

InferFormat ==
    /\ inf.pc = "ready"
    /\ inf' = [inf EXCEPT !.pc = "inferred", !.result = infer_format(inf.deck_data)]

(***************************************************************************)
(* MainWindow._import_deck_from_url (gui/app.py): the file name made from  *)
(* the deck name, the save folder and the call of write_cod.               *)
(***************************************************************************)

\* str.replace(old, new), scanned from the left without overlap: the text
\* up to the first occurrence, new, and the rest treated likewise.
RECURSIVE replace_all(_, _, _)
replace_all(s, old, new) ==
    LET at == {i \in 1..(Len(s) - Len(old) + 1) : SubSeq(s, i, i + Len(old) - 1) = old}
        first == CHOOSE i \in at : \A j \in at : i <= j
    IN  IF at = {} THEN s
        ELSE SubSeq(s, 1, first - 1) \o new
             \o replace_all(SubSeq(s, first + Len(old), Len(s)), old, new)

\* .replace("(", "").replace(")", "").replace(" ", "_")
drop_parens(s) == SelectSeq(s, LAMBDA c : c \notin {"(", ")"})
spaces_to_underscores(s) == [i \in 1..Len(s) |-> IF s[i] = " " THEN "_" ELSE s[i]]

\* str.strip("_")
strip_underscores(s) ==
    LET keep == {i \in 1..Len(s) : s[i] # "_"}
    IN  IF keep = {} THEN <<>>
        ELSE SubSeq(s, CHOOSE a \in keep : \A b \in keep : a <= b,
                       CHOOSE a \in keep : \A b \in keep : a >= b)

STR_double_underscore == <<"_", "_">>

\* while "__" in clean_name: clean_name = clean_name.replace("__", "_")
RECURSIVE collapse_underscores(_)
collapse_underscores(s) ==
    IF contains(s, STR_double_underscore)
    THEN collapse_underscores(replace_all(s, STR_double_underscore, <<"_">>))
    ELSE s

\* re.sub(r'[<>:"/\\|?*]', "", clean_name)
InvalidFilenameChars == {"<", ">", ":", "\"", "/", "\\", "|", "?", "*"}
remove_invalid_chars(s) == SelectSeq(s, LAMBDA c : c \notin InvalidFilenameChars)

max_stem_length == 100

\* A plausible slip: the name is never cut.
truncate_never(s) == s

\* if len(clean_name) > 100: clean_name = clean_name[:100]
truncate(s) == IF Len(s) > max_stem_length THEN SubSeq(s, 1, max_stem_length) ELSE s

\* str.isspace()
isspace(s) == s # <<>> /\ \A i \in 1..Len(s) : IsSpace(s[i])

STR_Decklist == <<"D", "e", "c", "k", "l", "i", "s", "t">>
STR_imported_deck == <<"i", "m", "p", "o", "r", "t", "e", "d", "_", "d", "e", "c", "k">>

\* The file name without ".cod" that import_in_thread makes of the deck name.
filename_stem(deckname) ==
    LET clean_name ==
            truncate(remove_invalid_chars(collapse_underscores(strip_underscores(
                spaces_to_underscores(drop_parens(replace_all(deckname, STR_Decklist, <<>>)))))))
    IN  IF clean_name = <<>> \/ isspace(clean_name) THEN STR_imported_deck ELSE clean_name

\* n characters: unit over and over.
Repeat(unit, n) == [i \in 1..n |-> unit[((i - 1) % Len(unit)) + 1]]

\* Bound: the length of the short deck names drawn.
MaxDeckNameLen == 3
DeckNameAlphabet == {"a", " ", "_", "/", ":", "("}

LongDeckNames ==
    { Repeat(<<"a", "b", "/", "c", ":", "d", " ">>, 300), Repeat(<<"/", ":", "*", "?">>, 300), Repeat(<<" ", "_">>, 300), Repeat(<<"a">>, 101),
      Repeat(<<"a">>, 100), <<"M", "y", " ", "D", "e", "c", "k", "l", "i", "s", "t", " ", "(", "v", "2", ")">>, <<"D", "e", "c", "k", "l", "i", "s", "t">>, <<"\t">>, <<"F", "i", "r", "e", " ", "/", " ", "I", "c", "e">>, <<"<", "a", ">", "|", "b", "\\", "\"", "c", "\"", "?">> }

DeckNames == SeqsUpTo(DeckNameAlphabet, MaxDeckNameLen) \cup LongDeckNames

ImpIdle ==
    [pc |-> "idle", deckname |-> <<>>, fetched |-> FALSE, save_path |-> <<>>,
     dir_exists |-> FALSE, stem |-> <<>>, written |-> FALSE, status |-> "none"]

\* The window before an import: the deck the url leads to (if any), the
\* text of the save folder field and whether that folder exists.
ImpInit ==
    \E n \in DeckNames, f \in BOOLEAN, p \in {<<>>, <<" ">>, <<"d", "e", "c", "k", "s", "/", "n", "e", "w">>}, d \in BOOLEAN :
        imp = [ImpIdle EXCEPT !.pc = "ready", !.deckname = n, !.fetched = f,
                              !.save_path = p, !.dir_exists = d]

\* write_cod(deck, path) (deck_parser.py): open(path, 'wb') of a file in a
\* folder that may be missing or not writable.
write_cod_file(dir_exists, writable) ==
    IF dir_exists /\ writable THEN [written |-> TRUE, raised |-> FALSE]
    ELSE [written |-> FALSE, raised |-> TRUE]

\* import_in_thread: fetch, convert, create the folder, name the file,
\* write it; every exception ends in an error status.
import_in_thread(mkdir_ok, writable) ==
    /\ imp.pc = "ready"
    /\ imp' =
        IF ~imp.fetched THEN [imp EXCEPT !.pc = "done", !.status = "error"]
        ELSE IF strip(imp.save_path) = <<>> THEN [imp EXCEPT !.pc = "done", !.status = "error"]
        ELSE IF ~imp.dir_exists /\ ~mkdir_ok THEN [imp EXCEPT !.pc = "done", !.status = "error"]
        ELSE LET w == write_cod_file(TRUE, writable)
             IN  [imp EXCEPT !.pc = "done", !.dir_exists = TRUE,
                             !.stem = filename_stem(imp.deckname),
                             !.written = w.written,
                             !.status = IF w.raised THEN "error" ELSE "success"]

\* write_cod called on its own with a path in the save folder as it is.
write_cod_call(writable) ==
    /\ imp.pc = "ready"
    /\ imp.fetched /\ strip(imp.save_path) # <<>>
    /\ LET w == write_cod_file(imp.dir_exists, writable)
       IN  imp' = [imp EXCEPT !.pc = "wrote", !.stem = filename_stem(imp.deckname),
                              !.written = w.written,
                              !.status = IF w.raised THEN "raised" ELSE "success"]

ImpNext ==
    \/ \E m \in BOOLEAN, w \in BOOLEAN : import_in_thread(m, w)
    \/ \E w \in BOOLEAN : write_cod_call(w)

(***************************************************************************)
(* MainWindow.export_precons: the batch import of the selected decks, in   *)
(* the current window (gui/app.py, MTGJSON decks) and in the earlier one   *)
(* (app.py, Moxfield decks).                                               *)
(***************************************************************************)

\* Bound: how many decks are selected at most.
MaxSelected == 3

\* What happens to one selected deck: "ok", or the step that fails for it.
\* gui/app.py: deck.to_cockatrice() raises when fetch_deck_details returns
\* nothing ("no_details") and when the conversion raises ("convert_fails").
\* app.py: MoxfieldScraper.fetch_deck_details returns None ("no_details").
DeckFates(window) ==
    IF window = "gui/app.py" THEN {"ok", "no_details", "convert_fails", "write_fails"}
    ELSE {"ok", "no_details", "write_fails"}

\* The body of the loop for one selected deck: "written" (imported_count
\* += 1), "write_failed" and "skipped" (continue), or "raised" (the
\* exception leaves export_precons).
deck_step(window, fate) ==
    IF fate = "no_details" THEN (IF window = "gui/app.py" THEN "raised" ELSE "skipped")
    ELSE IF fate = "convert_fails" THEN "raised"
    ELSE IF fate = "write_fails" THEN "write_failed"
    ELSE "written"

\* The file name stem export_precons makes from the deck name (the same in
\* both windows): 'Decklist' and parentheses dropped, spaces turned into
\* underscores, the ends stripped of underscores, runs of underscores
\* collapsed.  Nothing else is done to the name.
export_filename_stem(deckname) ==
    collapse_underscores(strip_underscores(
        spaces_to_underscores(drop_parens(replace_all(deckname, STR_Decklist, <<>>)))))

\* for item_id, deck_type, idx in self.card_items: ... from deck i on; the
\* deck fates[i] is named names[i].
RECURSIVE export_loop(_, _, _, _, _)
export_loop(window, fates, names, i, acc) ==
    IF i > Len(fates) THEN acc
    ELSE LET step == deck_step(window, fates[i])
             acc1 == [acc EXCEPT !.steps = Append(@, step),
                                 !.files = IF step = "written"
                                           THEN Append(@, export_filename_stem(names[i]))
                                           ELSE @,
                                 !.imported_count = IF step = "written" THEN @ + 1 ELSE @]
         IN  IF step = "raised" THEN [acc1 EXCEPT !.raised = TRUE]
             ELSE export_loop(window, fates, names, i + 1, acc1)

\* Names of the decks of the list.
BatchDeckNames ==
    << <<"A", "d", "a", "p", "t", "i", "v", "e", " ", "E", "n", "c", "h", "a", "n", "t", "m", "e", "n", "t">>, <<"F", "i", "r", "e", " ", "/", " ", "I", "c", "e">>, <<"D", "e", "c", "k", "l", "i", "s", "t">>, Repeat(<<"a">>, 101),
       <<"M", "y", " ", "D", "e", "c", "k", "l", "i", "s", "t", " ", "(", "v", "2", ")">> >>

BatchIdle ==
    [pc |-> "idle", window |-> "", fates |-> <<>>, names |-> <<>>, dir_ok |-> TRUE,
     steps |-> <<>>, files |-> <<>>, imported_count |-> 0, raised |-> FALSE,
     status |-> "none"]

\* The window with its decks loaded and some of them selected; dir_ok: the
\* save folder exists or can be created.
BatchInit ==
    \E w \in {"gui/app.py", "app.py"}, d \in BOOLEAN :
        \E fs \in SeqsUpTo(DeckFates(w), MaxSelected), k \in 1..Len(BatchDeckNames) :
            batch = [BatchIdle EXCEPT
                        !.pc = "ready", !.window = w, !.fates = fs, !.dir_ok = d,
                        !.names = [i \in 1..Len(fs) |->
                                    BatchDeckNames[((k + i - 2) % Len(BatchDeckNames)) + 1]]]

export_precons ==
    /\ batch.pc = "ready"
    /\ batch' =
        IF ~batch.dir_ok
        THEN [batch EXCEPT !.pc = "done", !.status = "Cannot create save directory"]
        ELSE IF batch.fates = <<>>
        THEN [batch EXCEPT !.pc = "done", !.status = "Please select precon decks to import."]
        ELSE LET r == export_loop(batch.window, batch.fates, batch.names, 1,
                                  [steps |-> <<>>, files |-> <<>>, imported_count |-> 0,
                                   raised |-> FALSE])
             IN  [batch EXCEPT !.pc = "done", !.steps = r.steps, !.files = r.files,
                               !.imported_count = r.imported_count, !.raised = r.raised,
                               !.status = IF r.raised THEN "none"
                                          ELSE IF r.imported_count > 0 THEN "success"
                                          ELSE "warning"]

(***************************************************************************)
(* MainWindow: the main thread, the worker threads it starts and the       *)
(* callbacks they hand back with root.after.  window tells which window    *)
(* runs: "gui" is gui/app.py (MTGJSON catalog), "app" is app.py (Moxfield  *)
(* catalog, with the 'Update List' button).  The main thread runs one      *)
(* handler at a time; while export_precons runs (remaining > 0) no click   *)
(* and no callback is served.  requests records every remote request with  *)
(* the thread that made it.                                                *)
(***************************************************************************)

\* Bound: the clicks of the user in one run.
MaxClicks == 3

Windows == {"gui", "app"}

Request(what, by) == [what |-> what, by |-> by]

UiIdle ==
    [window |-> "gui", cache_valid |-> TRUE, load |-> "not_started",
     updates |-> 0, imports |-> 0, update_list_btn |-> "normal",
     import_url_btn |-> "normal", list_loaded |-> FALSE, remaining |-> 0,
     pending |-> <<>>, requests |-> {}, clicks |-> 0]

\* MainWindow.__init__: the buttons are enabled, load_initial_decks is
\* scheduled; the catalog cache of an earlier run is valid or not.
UiInit ==
    \E w \in Windows, v \in BOOLEAN :
        ui = [UiIdle EXCEPT !.window = w, !.cache_valid = v,
                            !.update_list_btn = IF w = "app" THEN "normal" ELSE "absent"]

MainThreadFree == ui.remaining = 0

\* load_initial_decks, on the main thread: starts load_in_thread.
load_initial_decks ==
    /\ MainThreadFree
    /\ ui.load = "not_started"
    /\ ui' = [ui EXCEPT !.load = "started",
                        !.import_url_btn = IF ui.window = "gui" THEN "disabled" ELSE @]

\* The callbacks load_in_thread hands to the main thread when it ends.
load_callbacks(window, decks) ==
    (IF decks THEN <<"update_list">> ELSE <<>>)
        \o (IF window = "gui" THEN <<"enable_import">> ELSE <<>>)

\* load_in_thread, on a worker: a valid cache is read, otherwise the
\* catalog is requested (and the cache written when the answer arrives).
load_in_thread ==
    /\ ui.load = "started"
    /\ ui' = IF ui.cache_valid
             THEN [ui EXCEPT !.load = "finished",
                             !.pending = @ \o load_callbacks(ui.window, TRUE)]
             ELSE [ui EXCEPT !.load = "fetching",
                             !.requests = @ \cup {Request("catalog", "worker")}]

\* The catalog fetch of load_in_thread returns, with decks or without.
load_in_thread_done(decks) ==
    /\ ui.load = "fetching"
    /\ ui' = [ui EXCEPT !.load = "finished",
                        !.cache_valid = decks,
                        !.pending = @ \o load_callbacks(ui.window, decks)]

\* update_deck_list (app.py), on the main thread: the click on 'Update
\* List' disables the buttons and starts update_in_thread, whose forced
\* fetch_all_precons requests the catalog.
update_deck_list ==
    /\ MainThreadFree
    /\ ui.window = "app"
    /\ ui.update_list_btn = "normal"
    /\ ui.clicks < MaxClicks
    /\ ui' = [ui EXCEPT !.update_list_btn = "disabled",
                        !.import_url_btn = "disabled",
                        !.updates = @ + 1,
                        !.requests = @ \cup {Request("catalog", "worker")},
                        !.clicks = @ + 1]

\* update_in_thread ends: fetch_all_precons has returned.
update_in_thread_done ==
    /\ ui.updates > 0
    /\ ui' = [ui EXCEPT !.updates = @ - 1,
                        !.cache_valid = TRUE,
                        !.pending = Append(@, "update_list")]

\* _import_deck_from_url, on the main thread: disables the button and
\* starts import_in_thread, which fetches the deck of the url.
import_from_url ==
    /\ MainThreadFree
    /\ ui.import_url_btn = "normal"
    /\ ui.clicks < MaxClicks
    /\ ui' = [ui EXCEPT !.import_url_btn = "disabled",
                        !.imports = @ + 1,
                        !.requests = @ \cup {Request("deck", "worker")},
                        !.clicks = @ + 1]

\* import_in_thread ends (finally: the button is enabled again).
import_in_thread_done ==
    /\ ui.imports > 0
    /\ ui' = [ui EXCEPT !.imports = @ - 1,
                        !.pending = Append(@, "enable_import")]

\* The main thread serves the next root.after callback:
\* _update_precon_list / _update_precon_list_silent / _update_mtgjson_list
\* fill the list and call _reset_precon_buttons.
after_callback ==
    /\ MainThreadFree
    /\ ui.pending # <<>>
    /\ ui' = IF Head(ui.pending) = "update_list"
             THEN [ui EXCEPT !.pending = Tail(@),
                             !.list_loaded = TRUE,
                             !.update_list_btn = IF ui.window = "app" THEN "normal" ELSE @,
                             !.import_url_btn = "normal"]
             ELSE [ui EXCEPT !.pending = Tail(@),
                             !.import_url_btn = "normal"]

\* export_selected -> export_precons, on the main thread, with n decks
\* selected in the list.
export_selected(n) ==
    /\ MainThreadFree
    /\ ui.list_loaded
    /\ ui.clicks < MaxClicks
    /\ ui' = [ui EXCEPT !.remaining = n, !.clicks = @ + 1]

\* One turn of the loop of export_precons: the details of the deck are
\* taken from the deck cache or requested, by the thread that runs the loop.
export_next_deck(cached) ==
    /\ ui.remaining > 0
    /\ ui' = [ui EXCEPT !.remaining = @ - 1,
                        !.requests = IF cached THEN @
                                     ELSE @ \cup {Request("details", "main")}]

UiNext ==
    \/ load_initial_decks
    \/ load_in_thread
    \/ \E decks \in BOOLEAN : load_in_thread_done(decks)
    \/ update_deck_list
    \/ update_in_thread_done
    \/ import_from_url
    \/ import_in_thread_done
    \/ after_callback
    \/ \E n \in 1..MaxSelected : export_selected(n)
    \/ \E cached \in BOOLEAN : export_next_deck(cached)

(***************************************************************************)
(* One call of MTGJsonScraper._fetch_url against a server whose answers    *)
(* to the successive requests are drawn beforehand.                        *)
(***************************************************************************)

FuIdle ==
    [pc |-> "idle", outcomes |-> <<>>, ok |-> FALSE, attempts |-> 0, sleeps |-> <<>>]

FuInit ==
    \E o \in [1..max_retries -> AttemptOutcomes] :
        fu = [FuIdle EXCEPT !.pc = "ready", !.outcomes = o]

FetchUrl ==
    /\ fu.pc = "ready"
    /\ LET r == fetch_url_attempts(fu.outcomes, 0, <<>>)
       IN  fu' = [fu EXCEPT !.pc = "done", !.ok = r.ok, !.attempts = r.attempts,
                            !.sleeps = r.sleeps]


(***************************************************************************)
(* The three converters to the Cockatrice model, run on the same decks:    *)
(* convert_universal_to_cockatrice (deck_import.py) and the two versions   *)
(* of convert_moxfield_to_cockatrice (src/importers/moxfield_scraper.py    *)
(* and the older moxfield_scraper.py).                                     *)
(***************************************************************************)

\* The older make_card_entries: the name is copied as it is.
make_card_entries_raw(card_list) ==
    [i \in 1..Len(card_list) |->
        CardEntry(get(card_list[i], "quantity", 1),
                  get(card_list[i], "name", <<>>),
                  get(card_list[i], "set", <<>>),
                  get(card_list[i], "collector_number", <<>>),
                  get(card_list[i], "scryfall_id", <<>>))]

\* The older loop over the commanders: name=commander.strip()
RECURSIVE commander_entries_stripped(_)
commander_entries_stripped(commanders) ==
    IF commanders = <<>> THEN <<>>
    ELSE (IF strip(Head(commanders)) # <<>>
          THEN <<CardEntry(1, strip(Head(commanders)), <<>>, <<>>, <<>>)>>
          ELSE <<>>)
         \o commander_entries_stripped(Tail(commanders))

\* is_commander_deck = bool(commanders) or format.lower() == "commander"
is_commander_deck(deck) ==
    deck.commanders # <<>> \/ lower(deck.format) = STR_commander

\* src/importers/moxfield_scraper.py; pick is the index random.choice draws.
\* Its make_card_entries and its commander loop are those of deck_import.py,
\* the two clean_card_name being the same function.
convert_moxfield_to_cockatrice(deck, pick) ==
    IF is_commander_deck(deck)
    THEN [deckname |-> deck.name,
          zone_main |-> make_card_entries(deck.mainboard),
          zone_side |-> commander_entries(deck.commanders),
          banner_card |-> first_banner(commander_entries(deck.commanders))]
    ELSE [deckname |-> deck.name,
          zone_main |-> make_card_entries(deck.mainboard),
          zone_side |-> make_card_entries(deck.sideboard),
          banner_card |-> IF deck.mainboard # <<>>
                          THEN moxfield_clean_card_name(get(deck.mainboard[pick], "name", <<>>))
                          ELSE <<>>]

\* moxfield_scraper.py: no banner card, the side zone is the commanders.
legacy_convert_moxfield_to_cockatrice(deck) ==
    [deckname |-> deck.name,
     zone_main |-> make_card_entries_raw(deck.mainboard),
     zone_side |-> commander_entries_stripped(deck.commanders),
     banner_card |-> <<>>]

Converters == {"universal", "moxfield", "moxfield_legacy"}

MxIdle == [pc |-> "idle", converter |-> "none", deck |-> ConvIdle.deck,
           out |-> NoCockatriceDeck]

MxInit ==
    \E k \in Converters, f \in ConvFormats, m \in SeqsUpTo(ConvCards, MaxMain),
       s \in SeqsUpTo(ConvCards, MaxSide),
       c \in SeqsUpTo(ConvCommanders, MaxCommanders) :
        mx = [pc |-> "input", converter |-> k,
              deck |-> [name |-> <<"D">>, format |-> f, mainboard |-> m,
                        sideboard |-> s, commanders |-> c],
              out |-> NoCockatriceDeck]

ConvertWith ==
    /\ mx.pc = "input"
    /\ \E pick \in 1..(IF mx.deck.mainboard = <<>> THEN 1 ELSE Len(mx.deck.mainboard)) :
        mx' = [mx EXCEPT
                !.pc = "converted",
                !.out = CASE mx.converter = "universal" ->
                                convert_universal_to_cockatrice(mx.deck, pick)
                          [] mx.converter = "moxfield" ->
                                convert_moxfield_to_cockatrice(mx.deck, pick)
                          [] OTHER -> legacy_convert_moxfield_to_cockatrice(mx.deck)]


(***************************************************************************)
(* download_and_install_theme (templates.py).  The themes folder is the    *)
(* set of the names of its sub-folders; a call may fail while it downloads *)
(* the archive, while it opens it, or while it copies the files.           *)
(***************************************************************************)

STR_theme_name == <<"T">>
STR_version_infix == <<"_", "v">>
STR_default_version == <<"0", ".", "0", ".", "0">>

\* re.match(r"^\d+(\.\d+)*$", version_str)
is_valid_version(version_str) ==
    \A i \in 1..Len(split(version_str, <<".">>)) : isdigit(split(version_str, <<".">>)[i])

\* tuple(int(x) for x in v.split(".")), (0, 0, 0) on ValueError
version_tuple(v) ==
    IF is_valid_version(v)
    THEN [i \in 1..Len(split(v, <<".">>)) |-> int_str(split(v, <<".">>)[i])]
    ELSE <<0, 0, 0>>

\* Python's order on tuples of integers.
tuple_less(a, b) ==
    \/ Len(a) < Len(b) /\ a = SubSeq(b, 1, Len(a))
    \/ \E i \in 1..Min2(Len(a), Len(b)) :
            a[i] < b[i] /\ SubSeq(a, 1, i - 1) = SubSeq(b, 1, i - 1)

compare_versions(version1, version2) ==
    IF tuple_less(version_tuple(version2), version_tuple(version1)) THEN 1
    ELSE IF tuple_less(version_tuple(version1), version_tuple(version2)) THEN -1
    ELSE 0

\* The folders of themes_path that hold a version of theme_name.
find_existing_theme_versions(folders, theme_name) ==
    { [folder_name |-> f,
       version |-> IF f = theme_name THEN STR_default_version
                   ELSE SubSeq(f, Len(theme_name \o STR_version_infix) + 1, Len(f))] :
        f \in { g \in folders :
                    \/ g = theme_name
                    \/ /\ startswith(g, theme_name \o STR_version_infix)
                       /\ is_valid_version(SubSeq(g, Len(theme_name \o STR_version_infix) + 1,
                                                   Len(g))) } }

\* max(versions, key=version_key); the folders drawn have distinct keys.
get_latest_version(versions) ==
    CHOOSE v \in versions :
        \A w \in versions : ~tuple_less(version_tuple(v.version), version_tuple(w.version))

\* The themes folder after the call and what the call returned; fail is the
\* step at which an exception is raised, if any.
download_and_install_theme(version, folders, fail) ==
    LET theme_folder == IF version # <<>>
                        THEN STR_theme_name \o STR_version_infix \o version
                        ELSE STR_theme_name
        existing_versions == find_existing_theme_versions(folders, STR_theme_name)
        latest_installed == get_latest_version(existing_versions)
        skipped == /\ existing_versions # {}
                   /\ version # <<>>
                   /\ compare_versions(version, latest_installed.version) <= 0
        cleared == (folders \ {e.folder_name : e \in existing_versions}) \ {theme_folder}
    IN  IF skipped
        THEN [folders |-> folders, result |-> Returned(latest_installed.folder_name),
              installed |-> FALSE]
        ELSE IF fail \in {"download", "bad_zip"}
        THEN [folders |-> cleared, result |-> Raised, installed |-> FALSE]
        ELSE IF fail = "copy"
        THEN [folders |-> cleared \cup {theme_folder}, result |-> Raised,
              installed |-> FALSE]
        ELSE [folders |-> cleared \cup {theme_folder}, result |-> Returned(theme_folder),
              installed |-> TRUE]

\* The folders a themes folder may hold before the call.
ThemeFolders == { <<"T">>, <<"T", "_", "v", "1", ".", "0">>, <<"T", "_", "v", "1", ".", "0", ".", "0">>, <<"T", "_", "v", "2", ".", "0">>, <<"T", "_", "v", "b", "e", "t", "a">>, <<"O", "t", "h", "e", "r">> }

ThemeVersions == { <<>>, <<"1", ".", "0">>, <<"1", ".", "0", ".", "0">>, <<"2", ".", "0">>, <<"b", "e", "t", "a">> }

InstallFailures == {"none", "download", "bad_zip", "copy"}

ThIdle == [pc |-> "idle", version |-> <<>>, fail |-> "none", before |-> {},
           folders |-> {}, result |-> ReturnedNone, installed |-> FALSE]

ThInit ==
    \E v \in ThemeVersions, d \in SUBSET ThemeFolders, f \in InstallFailures :
        th = [ThIdle EXCEPT !.pc = "ready", !.version = v, !.fail = f,
                            !.before = d, !.folders = d]

InstallTheme ==
    /\ th.pc = "ready"
    /\ LET r == download_and_install_theme(th.version, th.folders, th.fail)
       IN  th' = [th EXCEPT !.pc = "done", !.folders = r.folders,
                            !.result = r.result, !.installed = r.installed]


(***************************************************************************)
(* Specifications.  Each runs one component; the others stay idle.         *)
(***************************************************************************)

IdleCaches ==
    /\ clock = [now |-> 0, ticks |-> 0]
    /\ disk = IdleDisk
    /\ server = IdleServer
    /\ LastInit("none")

cacheVars == <<clock, disk, server, last>>

IdleAux == fu = FuIdle /\ mx = MxIdle /\ th = ThIdle

auxVars == <<fu, mx, th>>

IdleApp == imp = ImpIdle /\ batch = BatchIdle /\ ui = UiIdle /\ IdleAux

appVars == <<imp, batch, ui, auxVars>>

\* clean_card_name on every raw name of the bounded alphabet.
SpecNamesInit ==
    /\ NmInit
    /\ conv = ConvIdle /\ cod = CodIdle /\ mgr = MgrIdle /\ gf = GfIdle /\ inf = InfIdle
    /\ IdleCaches
    /\ IdleApp

SpecNamesNext == CleanName /\ UNCHANGED <<conv, cod, mgr, gf, inf, cacheVars, appVars>>

SpecNames == SpecNamesInit /\ [][SpecNamesNext]_vars

\* convert_universal_to_cockatrice on every deck of the bounded sets.
SpecConvertInit ==
    /\ ConvInit
    /\ nm = NmIdle /\ cod = CodIdle /\ mgr = MgrIdle /\ gf = GfIdle /\ inf = InfIdle
    /\ IdleCaches
    /\ IdleApp

SpecConvertNext == Convert /\ UNCHANGED <<nm, cod, mgr, gf, inf, cacheVars, appVars>>

SpecConvert == SpecConvertInit /\ [][SpecConvertNext]_vars

\* write_cod then parse_cod on every deck of the bounded sets.
SpecCodInit ==
    /\ CodInit
    /\ nm = NmIdle /\ conv = ConvIdle /\ mgr = MgrIdle /\ gf = GfIdle /\ inf = InfIdle
    /\ IdleCaches
    /\ IdleApp

SpecCodNext == (WriteCod \/ ParseCod) /\ UNCHANGED <<nm, conv, mgr, gf, inf, cacheVars, appVars>>

SpecCod == SpecCodInit /\ [][SpecCodNext]_vars

\* The import manager: registrations and fetches in any order.
SpecManagerInit ==
    /\ MgrInit
    /\ nm = NmIdle /\ conv = ConvIdle /\ cod = CodIdle /\ gf = GfIdle /\ inf = InfIdle
    /\ IdleCaches
    /\ IdleApp

SpecManagerNext == MgrNext /\ UNCHANGED <<nm, conv, cod, gf, inf, cacheVars, appVars>>

SpecManager == SpecManagerInit /\ [][SpecManagerNext]_vars

\* One scraper object, Moxfield's or MTGJSON's, its cache and the clock.
SmallListings == {Listing(3, 2), <<>>}

SpecCacheInit ==
    /\ MoxfieldInit(OldPreconFiles, SmallListings) \/ MTGJsonInit
    /\ nm = NmIdle /\ conv = ConvIdle /\ cod = CodIdle /\ mgr = MgrIdle
    /\ gf = GfIdle /\ inf = InfIdle
    /\ IdleApp

SpecCacheNext == CacheNext /\ UNCHANGED <<nm, conv, cod, mgr, gf, inf, appVars>>

SpecCache == SpecCacheInit /\ [][SpecCacheNext]_vars

\* The fetches of either scraper over the caches of an earlier run, valid
\* or two days old, the Moxfield listing being one full page, so that a
\* second page is requested.  No time passes between the fetches.
SpecFrameInit ==
    /\ \/ MoxfieldInit({AbsentFile, File("ok", AlmostADayAgo, OldPrecons),
                        File("ok", 0, OldPrecons)}, {Listing(page_size, 1)})
       \/ MTGJsonInit
    /\ nm = NmIdle /\ conv = ConvIdle /\ cod = CodIdle /\ mgr = MgrIdle
    /\ gf = GfIdle /\ inf = InfIdle
    /\ IdleApp

SpecFrameNext ==
    /\ \/ \E force \in BOOLEAN, fail \in FailPoints, w \in BOOLEAN :
            fetch_all_precons(force, fail, w)
       \/ \E force \in BOOLEAN, e \in Surroundings :
            fetch_deck_list(force, e.fails, e.write_ok, e.meta_write_ok)
       \/ \E f \in DeckFiles, force \in BOOLEAN, e \in Surroundings :
            fetch_deck_details(f, force, e.fails, e.write_ok, e.meta_write_ok)
    /\ UNCHANGED <<nm, conv, cod, mgr, gf, inf, appVars>>

SpecFrame == SpecFrameInit /\ [][SpecFrameNext]_vars

\* The Moxfield scraper against listings of one page and of several pages.
SpecPreconsInit ==
    /\ MoxfieldInit({AbsentFile}, {Listing(n, p) : n \in ListingSizes, p \in {1, 2}})
    /\ nm = NmIdle /\ conv = ConvIdle /\ cod = CodIdle /\ mgr = MgrIdle
    /\ gf = GfIdle /\ inf = InfIdle
    /\ IdleApp

SpecPreconsNext ==
    /\ \E force \in BOOLEAN, fail \in FailPoints, w \in BOOLEAN :
            fetch_all_precons(force, fail, w)
    /\ UNCHANGED <<nm, conv, cod, mgr, gf, inf, appVars>>

SpecPrecons == SpecPreconsInit /\ [][SpecPreconsNext]_vars

\* MTGGoldfishImportScraper.fetch_deck on every url and response drawn.
SpecGoldfishInit ==
    /\ GfInit
    /\ nm = NmIdle /\ conv = ConvIdle /\ cod = CodIdle /\ mgr = MgrIdle /\ inf = InfIdle
    /\ IdleCaches
    /\ IdleApp

SpecGoldfishNext == GfFetchDeck /\ UNCHANGED <<nm, conv, cod, mgr, inf, cacheVars, appVars>>

SpecGoldfish == SpecGoldfishInit /\ [][SpecGoldfishNext]_vars

\* infer_format on every deck record drawn.
SpecInferInit ==
    /\ InfInit
    /\ nm = NmIdle /\ conv = ConvIdle /\ cod = CodIdle /\ mgr = MgrIdle /\ gf = GfIdle
    /\ IdleCaches
    /\ IdleApp

SpecInferNext == InferFormat /\ UNCHANGED <<nm, conv, cod, mgr, gf, cacheVars, appVars>>

SpecInfer == SpecInferInit /\ [][SpecInferNext]_vars

\* One import from a url, or one call of write_cod, per deck name drawn.
SpecImportInit ==
    /\ ImpInit
    /\ nm = NmIdle /\ conv = ConvIdle /\ cod = CodIdle /\ mgr = MgrIdle
    /\ gf = GfIdle /\ inf = InfIdle
    /\ IdleCaches
    /\ batch = BatchIdle /\ ui = UiIdle /\ IdleAux

SpecImportNext ==
    ImpNext /\ UNCHANGED <<nm, conv, cod, mgr, gf, inf, cacheVars, batch, ui, auxVars>>

SpecImport == SpecImportInit /\ [][SpecImportNext]_vars

\* One batch import per window and selection drawn.
SpecBatchInit ==
    /\ BatchInit
    /\ nm = NmIdle /\ conv = ConvIdle /\ cod = CodIdle /\ mgr = MgrIdle
    /\ gf = GfIdle /\ inf = InfIdle
    /\ IdleCaches
    /\ imp = ImpIdle /\ ui = UiIdle /\ IdleAux

SpecBatchNext ==
    export_precons /\ UNCHANGED <<nm, conv, cod, mgr, gf, inf, cacheVars, imp, ui, auxVars>>

SpecBatch == SpecBatchInit /\ [][SpecBatchNext]_vars

\* One window, its main thread and its workers.
SpecThreadsInit ==
    /\ UiInit
    /\ nm = NmIdle /\ conv = ConvIdle /\ cod = CodIdle /\ mgr = MgrIdle
    /\ gf = GfIdle /\ inf = InfIdle
    /\ IdleCaches
    /\ imp = ImpIdle /\ batch = BatchIdle /\ IdleAux

SpecThreadsNext ==
    /\ UiNext
    /\ UNCHANGED <<nm, conv, cod, mgr, gf, inf, cacheVars, imp, batch, auxVars>>

SpecThreads == SpecThreadsInit /\ [][SpecThreadsNext]_vars

\* One call of _fetch_url for every sequence of answers.
SpecFetchUrlInit ==
    /\ FuInit
    /\ nm = NmIdle /\ conv = ConvIdle /\ cod = CodIdle /\ mgr = MgrIdle
    /\ gf = GfIdle /\ inf = InfIdle
    /\ IdleCaches
    /\ imp = ImpIdle /\ batch = BatchIdle /\ ui = UiIdle /\ mx = MxIdle
    /\ th = ThIdle

SpecFetchUrlNext ==
    /\ FetchUrl
    /\ UNCHANGED <<nm, conv, cod, mgr, gf, inf, cacheVars, imp, batch, ui, mx, th>>

SpecFetchUrl == SpecFetchUrlInit /\ [][SpecFetchUrlNext]_vars

\* One conversion for every deck and converter drawn.
SpecConvertersInit ==
    /\ MxInit
    /\ nm = NmIdle /\ conv = ConvIdle /\ cod = CodIdle /\ mgr = MgrIdle
    /\ gf = GfIdle /\ inf = InfIdle
    /\ IdleCaches
    /\ imp = ImpIdle /\ batch = BatchIdle /\ ui = UiIdle /\ fu = FuIdle
    /\ th = ThIdle

SpecConvertersNext ==
    /\ ConvertWith
    /\ UNCHANGED <<nm, conv, cod, mgr, gf, inf, cacheVars, imp, batch, ui, fu, th>>

SpecConverters == SpecConvertersInit /\ [][SpecConvertersNext]_vars

\* One call of download_and_install_theme for every themes folder drawn.
SpecThemesInit ==
    /\ ThInit
    /\ nm = NmIdle /\ conv = ConvIdle /\ cod = CodIdle /\ mgr = MgrIdle
    /\ gf = GfIdle /\ inf = InfIdle
    /\ IdleCaches
    /\ imp = ImpIdle /\ batch = BatchIdle /\ ui = UiIdle /\ fu = FuIdle
    /\ mx = MxIdle

SpecThemesNext ==
    /\ InstallTheme
    /\ UNCHANGED <<nm, conv, cod, mgr, gf, inf, cacheVars, imp, batch, ui, fu, mx>>

SpecThemes == SpecThemesInit /\ [][SpecThemesNext]_vars


(***************************************************************************)
(* Properties.                                                             *)
(***************************************************************************)

\* The text between the first and the last non-blank character of s.
Trimmed(s) ==
    LET idx == {i \in 1..Len(s) : ~IsSpace(s[i])}
    IN  IF idx = {} THEN <<>>
        ELSE SubSeq(s, CHOOSE a \in idx : \A b \in idx : a <= b,
                       CHOOSE a \in idx : \A b \in idx : a >= b)

\* The positions at which "//" starts in s.
SlashAt(s) == {i \in 1..(Len(s) - 1) : s[i] = "/" /\ s[i + 1] = "/"}

\* What the contract of clean_card_name asks for raw.
CleanedAsSpecified(raw) ==
    IF SlashAt(raw) # {}
    THEN Trimmed(SubSeq(raw, 1, (CHOOSE i \in SlashAt(raw) : \A j \in SlashAt(raw) : i <= j) - 1))
    ELSE Trimmed(raw)

NonBlank(s) == \E i \in 1..Len(s) : ~IsSpace(s[i])

\* C1: a deck with a non-empty commanders list, whatever its format field,
\* is converted with one quantity-1 entry per non-blank commander in
\* zone_side, after the sideboard entries and in list order, and with
\* zone_main holding exactly one entry per mainboard card.
C1_CommandersGoToSide ==
    (conv.pc = "converted" /\ conv.deck.commanders # <<>>) =>
        LET d == conv.deck
            nb == SelectSeq(d.commanders, NonBlank)
            ns == Len(d.sideboard)
        IN  /\ Len(conv.out.zone_main) = Len(d.mainboard)
            /\ \A i \in 1..Len(d.mainboard) :
                /\ conv.out.zone_main[i].name = CleanedAsSpecified(get(d.mainboard[i], "name", <<>>))
                /\ conv.out.zone_main[i].number = get(d.mainboard[i], "quantity", 1)
            /\ Len(conv.out.zone_side) = ns + Len(nb)
            /\ \A i \in 1..ns :
                /\ conv.out.zone_side[i].name = CleanedAsSpecified(get(d.sideboard[i], "name", <<>>))
                /\ conv.out.zone_side[i].number = get(d.sideboard[i], "quantity", 1)
            /\ \A j \in 1..Len(nb) :
                /\ conv.out.zone_side[ns + j].name = CleanedAsSpecified(nb[j])
                /\ conv.out.zone_side[ns + j].number = 1

C1_Witness ==
    /\ conv.pc = "converted"
    /\ conv.deck.format = STR_standard
    /\ Len(conv.deck.commanders) = 2
    /\ NonBlank(conv.deck.commanders[1]) /\ ~NonBlank(conv.deck.commanders[2])
    /\ conv.deck.mainboard # <<>> /\ conv.deck.sideboard # <<>>
    /\ Len(conv.out.zone_side) = 2

\* The multiset of (name, quantity) pairs of a zone.
PairBag(entries) ==
    LET pair(i) == <<entries[i].name, entries[i].number>>
    IN  [p \in {pair(i) : i \in 1..Len(entries)} |->
            Cardinality({i \in 1..Len(entries) : pair(i) = p})]

Persistable(entries) ==
    \A i \in 1..Len(entries) : entries[i].number > 0 /\ entries[i].name # <<>>

\* C2: a deck whose entries have positive quantities and non-empty names,
\* written by write_cod and read back by parse_cod, has the same multiset of
\* (name, quantity) pairs in the main zone and in the side zone, empty or not.
C2_CodRoundTrip ==
    (cod.pc = "parsed" /\ Persistable(cod.deck.zone_main) /\ Persistable(cod.deck.zone_side)) =>
        /\ PairBag(cod.parsed.zone_main) = PairBag(cod.deck.zone_main)
        /\ PairBag(cod.parsed.zone_side) = PairBag(cod.deck.zone_side)

C2_Witness ==
    /\ cod.pc = "parsed"
    /\ Persistable(cod.deck.zone_main) /\ Persistable(cod.deck.zone_side)
    /\ cod.deck.zone_main = <<>>
    /\ Len(cod.deck.zone_side) = 2
    /\ cod.deck.zone_side[1].name = <<"R", "&", "D">>
    /\ cod.deck.zone_side[2].number = 36
    /\ cod.file.zones[2].cards[1]["name"] # cod.deck.zone_side[1].name
    /\ cod.parsed.zone_side[1].name = <<"R", "&", "D">>

\* C3: clean_card_name returns the trimmed text before the first "//" when
\* the raw name holds one, the empty string for the empty string, and the
\* trimmed raw name otherwise (both copies of the function).
C3_CleanCardName ==
    nm.pc = "cleaned" =>
        /\ nm.out = CleanedAsSpecified(nm.raw)
        /\ nm.mox_out = CleanedAsSpecified(nm.raw)
        /\ (nm.raw = <<>> => nm.out = <<>> /\ nm.mox_out = <<>>)

C3_Witness ==
    /\ nm.pc = "cleaned"
    /\ nm.raw = <<"a", " ", "/", "/">>
    /\ nm.out = <<"a">>

\* C4: fetch_deck(url) calls fetch_deck on exactly one scraper, the
\* earliest-registered one that can handle the url, and returns its result
\* unchanged (None included); with no matching scraper it calls none,
\* returns None and raises nothing.
C4_FirstRegisteredWins ==
    mgr.pc = "fetched" =>
        LET M == {i \in 1..Len(mgr.scrapers) : can_handle_url(mgr.scrapers[i], mgr.url)}
        IN  /\ ~mgr.raised
            /\ M = {} => mgr.calls = <<>> /\ mgr.result = NoDeck
            /\ M # {} =>
                /\ Len(mgr.calls) = 1
                /\ \A j \in M : mgr.calls[1].scraper <= j
                /\ mgr.calls[1].scraper \in M
                /\ mgr.result = mgr.calls[1].returned

C4_Witness ==
    /\ mgr.pc = "fetched"
    /\ mgr.scrapers = <<"MTGGoldfish", "Moxfield", "Moxfield">>
    /\ can_handle_url("Moxfield", mgr.url) /\ can_handle_url("MTGGoldfish", mgr.url)
    /\ Len(mgr.calls) = 1 /\ mgr.calls[1].scraper = 1
    /\ mgr.result = NoDeck

\* The age of the Moxfield cache file, and of the MTGJSON deck list by its
\* metadata stamp, when the last operation started.
MoxAge == last.before.now - last.before.disk.mox.mtime

DeckListStamped ==
    /\ last.before.disk.meta.state = "ok"
    /\ "last_decklist_fetch" \in DOMAIN last.before.disk.meta.data

DeckListAge == last.before.now - last.before.disk.meta.data["last_decklist_fetch"]

\* C5: a non-forced load of either catalog serves the cache exactly when its
\* age is strictly below max_age: at max_age or more a fresh fetch is
\* attempted, and below it a readable cache file is returned without one.
C5_ValidStrictlyBelowMaxAge ==
    /\ (last.op = "fetch_all_precons" /\ ~last.force /\ last.before.disk.mox.state # "absent") =>
        /\ MoxAge >= 24 * 3600 => last.fetched
        /\ (MoxAge < 24 * 3600 /\ last.before.disk.mox.state = "ok") =>
            ~last.fetched /\ last.result = Returned(last.before.disk.mox.data)
    /\ (last.op = "fetch_deck_list" /\ ~last.force /\ DeckListStamped) =>
        /\ DeckListAge >= 86400 => last.fetched
        /\ (DeckListAge < 86400 /\ last.before.disk.decklist.state = "ok") =>
            ~last.fetched /\ last.result = Returned(last.before.disk.decklist.data)

C5_Witness ==
    /\ last.op = "fetch_all_precons" /\ ~last.force
    /\ last.before.disk.mox.state = "ok"
    /\ MoxAge = 24 * 3600
    /\ last.fetched
    /\ last.fault = "ok"
    /\ last.result # Returned(last.before.disk.mox.data)

\* C6: a forced refresh that fails with a transport error while a valid,
\* readable cache exists returns the cached payload, from fetch_all_precons
\* and from fetch_deck_list alike, and raises nothing.
C6_FailedRefreshServesValidCache ==
    /\ (/\ last.op = "fetch_all_precons" /\ last.force /\ last.fault = "error"
        /\ last.before.disk.mox.state = "ok" /\ MoxAge < 24 * 3600) =>
            last.result = Returned(last.before.disk.mox.data)
    /\ (/\ last.op = "fetch_deck_list" /\ last.force /\ last.fault = "error"
        /\ DeckListStamped /\ DeckListAge < 86400
        /\ last.before.disk.decklist.state = "ok") =>
            last.result = Returned(last.before.disk.decklist.data)

C6_Witness ==
    /\ last.op = "fetch_deck_list" /\ last.force /\ last.fault = "error"
    /\ DeckListStamped /\ DeckListAge = 86400 - 1
    /\ last.before.disk.decklist.state = "ok"
    /\ last.requests = 3
    /\ last.result = Returned(OldDeckList)

\* The cache file the last operation had to fall back on.
FallbackFile ==
    CASE last.op = "fetch_all_precons" -> last.before.disk.mox
      [] last.op = "fetch_deck_list" -> last.before.disk.decklist
      [] last.op = "fetch_deck_details" -> last.before.disk.details[last.file]
      [] OTHER -> AbsentFile

\* C7: whenever the fresh fetch of fetch_all_precons, of fetch_deck_list or
\* of a forced fetch_deck_details fails and a readable cache file exists,
\* the cached payload is returned whatever its age.
C7_StaleCacheServedOnFailure ==
    (/\ last.op \in {"fetch_all_precons", "fetch_deck_list", "fetch_deck_details"}
     /\ last.op = "fetch_deck_details" => last.force
     /\ last.fault = "error"
     /\ last.before.disk.meta.state # "corrupt"
     /\ FallbackFile.state = "ok") =>
        last.result = Returned(FallbackFile.data)

\* The items of the listing the contract keeps.
WantedItem(item) ==
    /\ contains(lower(get(item, "format", <<>>)), <<"c", "o", "m", "m", "a", "n", "d", "e", "r", "p", "r", "e", "c", "o", "n">>)
    /\ ~contains(lower(get(item, "name", <<>>)), <<"c", "o", "l", "l", "e", "c", "t", "o", "r", "'", "s", " ", "e", "d", "i", "t", "i", "o", "n">>)

\* C8: when every request succeeds, fetch_all_precons requests pages 1, 2,
\* ... in order, stops after the first page that is empty or short of
\* page_size items, and returns in server order exactly the items whose
\* format holds 'commanderprecon' and whose name is no collector's edition.
C8_PagesAndFilter ==
    (last.op = "fetch_all_precons" /\ last.fetched /\ last.fault = "ok") =>
        LET items == server.mox_items
            wanted == SelectSeq(items, WantedItem)
        IN  /\ Len(last.requests) = (Len(items) \div 100) + 1
            /\ \A i \in 1..Len(last.requests) : last.requests[i] = i
            /\ last.result.kind = "value"
            /\ Len(last.result.value) = Len(wanted)
            /\ \A i \in 1..Len(wanted) :
                /\ last.result.value[i].name = wanted[i].name
                /\ last.result.value[i].url = <<"h", "t", "t", "p", "s", ":", "/", "/", "m", "o", "x", "f", "i", "e", "l", "d", ".", "c", "o", "m", "/", "d", "e", "c", "k", "s", "/">> \o wanted[i].publicId

C8_Witness ==
    /\ last.op = "fetch_all_precons" /\ last.fetched /\ last.fault = "ok"
    /\ Len(server.mox_items) = 150
    /\ Cardinality({i \in 1..150 : is_precon(server.mox_items[i])}) = 12
    /\ Cardinality({i \in 1..150 : is_precon(server.mox_items[i])
                                   /\ is_collectors_edition(server.mox_items[i])}) = 2
    /\ last.requests = <<1, 2>>
    /\ Len(last.result.value) = 10

EndsWith(s, t) == Len(s) >= Len(t) /\ SubSeq(s, Len(s) - Len(t) + 1, Len(s)) = t

\* A run of fetch_deck in which no card can be detected.
NoCardDetected ==
    \/ extract_deck_id(gf.url, gf.archetype_id) = None
    \/ gf.response.exception
    \/ gf.response.status # 200
    \/ ~gf.response.has_textarea
    \/ LET lines == split(gf.response.textarea, <<"\n">>)
       IN  \A i \in 1..Len(lines) : ~card_match(strip(lines[i])).matched

\* C9: fetch_deck never returns a deck without cards: a run that detects no
\* card returns the placeholder, named '... (Import Failed)' and holding the
\* sample cards.
C9_PlaceholderWhenNoCards ==
    gf.pc = "fetched" =>
        /\ Len(gf.result.mainboard) + Len(gf.result.sideboard) + Len(gf.result.commanders) > 0
        /\ NoCardDetected =>
            /\ EndsWith(gf.result.name, <<"(", "I", "m", "p", "o", "r", "t", " ", "F", "a", "i", "l", "e", "d", ")">>)
            /\ gf.result.mainboard = create_sample_cards(STR_standard)

DefinedFormats ==
    {FORMAT_INDICATORS[i].format : i \in 1..Len(FORMAT_INDICATORS)} \cup {<<"U", "n", "k", "n", "o", "w", "n">>}

\* C10: infer_format is total: whatever of type, name and code is missing,
\* null, empty or a string, it returns one of the defined format strings
\* and raises nothing.
C10_InferFormatTotal ==
    inf.pc = "inferred" =>
        /\ inf.result.kind = "value"
        /\ inf.result.value \in DefinedFormats

\* C11: the file name stem of an imported deck holds none of the characters
\* < > : " / \ | ? *, is between 1 and 100 characters long, and is
\* 'imported_deck' for a name made only of these characters or only of
\* spaces, underscores and parentheses.
C11_SafeFileName ==
    (imp.pc = "done" /\ imp.written) =>
        /\ \A i \in 1..Len(imp.stem) : imp.stem[i] \notin {"<", ">", ":", "\"", "/", "\\", "|", "?", "*"}
        /\ Len(imp.stem) >= 1 /\ Len(imp.stem) <= 100
        /\ (\/ (\A i \in 1..Len(imp.deckname) :
                    imp.deckname[i] \in {"<", ">", ":", "\"", "/", "\\", "|", "?", "*"})
             \/ (\A j \in 1..Len(imp.deckname) : imp.deckname[j] \in {" ", "_", "(", ")"}))
            => imp.stem = <<"i", "m", "p", "o", "r", "t", "e", "d", "_", "d", "e", "c", "k">>

C11_Witness ==
    /\ imp.pc = "done" /\ imp.written
    /\ Len(imp.deckname) = 300
    /\ \E i \in 1..300 : imp.deckname[i] = "/"
    /\ \E i \in 1..300 : imp.deckname[i] = ":"
    /\ Len(imp.stem) = 100

\* C12: no card with an empty name is persisted: in the file write_cod
\* makes of a converted deck, every card element of both zones has a
\* non-empty name.
C12_NoEmptyNamePersisted ==
    conv.pc = "converted" =>
        LET zones == write_cod(conv.out).zones
        IN  \A z \in 1..Len(zones) :
                \A i \in 1..Len(zones[z].cards) : zones[z].cards[i]["name"] # <<>>

\* C13: in a batch import a failure on one deck never aborts the batch:
\* nothing is raised, every selected deck is processed, every deck that can
\* be fetched, converted and written is written, and the reported count is
\* the number of files written.
C13_BatchIsolatesFailures ==
    (batch.pc = "done" /\ batch.dir_ok /\ batch.fates # <<>>) =>
        /\ ~batch.raised
        /\ Len(batch.steps) = Len(batch.fates)
        /\ \A i \in 1..Len(batch.fates) : batch.fates[i] = "ok" => batch.steps[i] = "written"
        /\ batch.imported_count =
            Cardinality({i \in 1..Len(batch.steps) : batch.steps[i] = "written"})

\* The metadata file the last operation started on is well-formed.
MetadataWellFormed ==
    /\ last.before.disk.meta.state = "ok"
    /\ {"last_decklist_fetch", "fetched_decks"} \subseteq DOMAIN last.before.disk.meta.data

\* What the last operation's remote request answers when it succeeds.
FreshPayload ==
    CASE last.op = "fetch_all_precons" ->
            fetch_pages(server.mox_items, 1, NoFail, <<>>, <<>>).decks
      [] last.op = "fetch_deck_list" -> get(server.decklist, "data", <<>>)
      [] last.op = "fetch_deck_details" -> server.details[last.file]
      [] OTHER -> <<>>

\* C14: when the remote fetch succeeds but the cache file or the metadata
\* file cannot be written, fetch_all_precons, fetch_deck_list and
\* fetch_deck_details still return the freshly fetched payload and raise
\* nothing.
C14_CacheWriteFailureSwallowed ==
    (/\ last.op \in {"fetch_all_precons", "fetch_deck_list", "fetch_deck_details"}
     /\ last.fetched /\ last.fault = "ok" /\ last.write_fault # "none"
     /\ last.self = "MTGJsonScraper" => MetadataWellFormed) =>
        last.result = Returned(FreshPayload)

\* The cache files the last operation read before fetching, all well-formed.
CachesReadable ==
    CASE last.op = "fetch_all_precons" -> last.before.disk.mox.state \in {"absent", "ok"}
      [] last.op = "fetch_deck_list" ->
            /\ last.before.disk.meta.state \in {"absent", "ok"} /\ MetadataWellFormed
            /\ last.before.disk.decklist.state \in {"absent", "ok"}
      [] last.op = "fetch_deck_details" ->
            /\ last.before.disk.meta.state \in {"absent", "ok"} /\ MetadataWellFormed
            /\ last.before.disk.details[last.file].state \in {"absent", "ok"}
      [] OTHER -> TRUE

\* C15: whatever is on disk (no file, a well-formed file, a file that is
\* not JSON, JSON of the wrong shape), the cache reads raise nothing, and
\* with a cache file that is not well-formed the operation fetches and
\* returns the fresh payload as if there were no cache.
C15_CorruptCacheIsAMiss ==
    (/\ last.op \in {"fetch_all_precons", "fetch_deck_list", "fetch_deck_details"}
     /\ last.fault = "ok" /\ last.write_fault = "none") =>
        /\ last.result.kind # "raised"
        /\ ~CachesReadable => (last.fetched /\ last.result = Returned(FreshPayload))

\* C16: a response without the expected 'data' list is treated like a
\* transport failure by fetch_all_precons and fetch_deck_list: the cache
\* file is left as it was and a readable cache is what is returned, not an
\* empty catalog.
C16_BadShapeIsAFailure ==
    /\ (last.op = "fetch_all_precons" /\ last.fault = "no_data") =>
        /\ disk.mox = last.before.disk.mox
        /\ last.before.disk.mox.state = "ok" =>
            last.result = Returned(last.before.disk.mox.data)
    /\ (/\ last.op = "fetch_deck_list" /\ last.fetched /\ last.fault = "ok"
        /\ "data" \notin DOMAIN server.decklist) =>
        /\ disk.decklist = last.before.disk.decklist
        /\ last.before.disk.decklist.state = "ok" =>
            last.result = Returned(last.before.disk.decklist.data)

\* C17: when the fresh fetch of fetch_all_precons, fetch_deck_list or
\* fetch_deck_details fails (a request of the Moxfield listing fails, on the
\* first page or on a later one; the MTGJSON download fails on every retry),
\* the cache files and the stored fetch timestamps are as they were, and
\* what is returned is the cached payload or nothing, never the decks
\* gathered before the failure.
C17_FailedFetchLeavesCache ==
    (/\ last.op \in {"fetch_all_precons", "fetch_deck_list", "fetch_deck_details"}
     /\ last.fault = "error") =>
        /\ disk.mox = last.before.disk.mox
        /\ disk.decklist = last.before.disk.decklist
        /\ disk.details = last.before.disk.details
        /\ disk.meta = last.before.disk.meta
        /\ last.result.kind = "value" =>
            \/ last.result.value = <<>>
            \/ FallbackFile.state = "ok" /\ last.result.value = FallbackFile.data

C17_Witness ==
    /\ last.op = "fetch_all_precons" /\ last.fault = "error"
    /\ last.requests = <<1, 2>>
    /\ precons_on_page(listing_page(server.mox_items, 1)) # <<>>
    /\ last.before.disk.mox.state = "ok"
    /\ last.result = Returned(OldPrecons)
    /\ disk.mox = File("ok", AlmostADayAgo, OldPrecons)

\* C18: after write_cod(deck, path) the directory of path exists, whether
\* or not it existed before: a call is never stopped by a missing
\* directory.
C18_WriteCodCreatesDirectory ==
    imp.pc = "wrote" => imp.dir_exists

\* C19: no remote request is made by the main thread: the catalog refresh,
\* the fetch of a deck from a url and the fetch of the details of each deck
\* of a batch import are all made by worker threads.
C19_NetworkOffMainThread ==
    \A r \in ui.requests : r.by = "worker"

\* The catalog fetches in progress that write the catalog cache when they
\* return.
CatalogFetchesInProgress ==
    (IF ui.load = "fetching" THEN 1 ELSE 0) + ui.updates

\* C20: at any moment at most one cache-writing catalog fetch is in
\* progress.
C20_SingleCatalogWriter ==
    CatalogFetchesInProgress <= 1

\* The format keywords looked for in the deck name.
NameKeywords == {<<"C", "o", "m", "m", "a", "n", "d", "e", "r">>, <<"S", "t", "a", "n", "d", "a", "r", "d">>, <<"M", "o", "d", "e", "r", "n">>, <<"L", "e", "g", "a", "c", "y">>, <<"P", "i", "o", "n", "e", "e", "r">>}

\* The last operation classified a record whose type matches no table entry
\* and whose name is a string.
NoTypeMatch ==
    /\ inf.pc = "inferred"
    /\ inf.result.kind = "value"
    /\ get(inf.deck_data, "type", <<>>) # None
    /\ table_format(1, get(inf.deck_data, "type", <<>>)) = <<>>
    /\ get(inf.deck_data, "name", <<>>) # None

\* C21: the set-code prefix is the last resort of infer_format: when no table
\* entry matches the type, a name holding a format keyword decides the
\* format, and 'Commander' is returned for the set code only when the name
\* holds none of the keywords.
C21_SetCodeIsLastResort ==
    NoTypeMatch =>
        \A kw \in NameKeywords \ {<<"C", "o", "m", "m", "a", "n", "d", "e", "r">>} :
            (/\ contains(get(inf.deck_data, "name", <<>>), kw)
             /\ ~contains(get(inf.deck_data, "name", <<>>), <<"C", "o", "m", "m", "a", "n", "d", "e", "r">>)) =>
                inf.result.value # <<"C", "o", "m", "m", "a", "n", "d", "e", "r">>

\* The plain-text export of the deck is unavailable: no 200 answer, no
\* textarea, or an empty one.
ExportUnavailable ==
    \/ gf.response.exception
    \/ gf.response.status # 200
    \/ ~gf.response.has_textarea
    \/ strip(gf.response.textarea) = <<>>

\* C22: when the plain-text export is unavailable, fetch_deck parses the
\* rendered page, table rows first, and returns the placeholder only when
\* no strategy detects a card: a page whose table rows hold cards does not
\* give the placeholder.
C22_HtmlFallbackBeforePlaceholder ==
    (/\ gf.pc = "fetched"
     /\ extract_deck_id(gf.url, gf.archetype_id) # None
     /\ ExportUnavailable
     /\ extract_card_lists(gf.page) # <<>>) =>
        gf.result # create_placeholder_deck(gf.url)

\* The number of the first successful request of the call, 0 when all fail.
RECURSIVE FirstSuccess(_)
FirstSuccess(i) ==
    IF i > Len(fu.outcomes) THEN 0
    ELSE IF fu.outcomes[i] = "ok" THEN i ELSE FirstSuccess(i + 1)

\* C23: _fetch_url makes at most 3 requests; it returns on the first
\* successful one and requests nothing after it; after failed request
\* number i < 3 it sleeps 2^(i-1) seconds and tries again; after the third
\* failure it raises without sleeping.
C23_FetchUrlRetries ==
    fu.pc = "done" =>
        /\ fu.attempts <= 3
        /\ fu.ok = (FirstSuccess(1) # 0)
        /\ fu.attempts = IF FirstSuccess(1) # 0 THEN FirstSuccess(1) ELSE 3
        /\ fu.sleeps = [i \in 1..(fu.attempts - 1) |-> pow2(i - 1)]

\* C24: deck details never expire.  A fetch_deck_details that returns a
\* fresh deck leaves it in the deck file with the metadata readable; and a
\* call that is not forced and finds the deck file readable (the metadata
\* being readable) returns its content without any request, whatever the
\* age of the file; clear_cache removes the deck files.
C24_DeckDetailsNeverExpire ==
    /\ (/\ last.op = "fetch_deck_details" /\ last.fetched
        /\ last.result.kind = "value") =>
            /\ disk.details[last.file].state = "ok"
            /\ disk.details[last.file].data = last.result.value
            /\ disk.meta.state = "ok"
    /\ (/\ last.op = "fetch_deck_details" /\ ~last.force
        /\ last.before.disk.details[last.file].state = "ok"
        /\ last.before.disk.meta.state # "corrupt") =>
            /\ ~last.fetched
            /\ last.requests = 0
            /\ last.result = Returned(last.before.disk.details[last.file].data)
    /\ last.op = "clear_cache" =>
            \A f \in DOMAIN disk.details : disk.details[f].state = "absent"

\* A deck fetched earlier is served from its file after time has passed, the
\* file being two days old by its modification time.
C24_Witness ==
    /\ last.op = "fetch_deck_details" /\ ~last.force
    /\ ~last.fetched
    /\ last.result = Returned(NewDetails)
    /\ clock.ticks = MaxTicks
    /\ last.before.now - last.before.disk.details[last.file].mtime >= 86400

\* C25: the file name stem of an imported deck never holds two underscores
\* in a row, whatever the deck name.
C25_NoDoubleUnderscore ==
    (imp.pc = "done" /\ imp.written) => ~contains(imp.stem, STR_double_underscore)

\* C26: every file the batch import writes has a stem that holds none of
\* the characters < > : " / \ | ? *, is at most 100 characters long and is
\* not empty.
C26_BatchFileNamesSafe ==
    batch.pc = "done" =>
        \A k \in 1..Len(batch.files) :
            /\ \A i \in 1..Len(batch.files[k]) : batch.files[k][i] \notin InvalidFilenameChars
            /\ Len(batch.files[k]) <= 100
            /\ Len(batch.files[k]) >= 1

\* The Arena export the last fetch_deck parsed, the places of its line
\* breaks and its lines, stripped.
ArenaContent == strip(gf.response.textarea)

LineBreaks == {i \in 1..Len(ArenaContent) : ArenaContent[i] = "\n"}

NthLineBreak(n) ==
    CHOOSE i \in LineBreaks : Cardinality({j \in LineBreaks : j < i}) = n - 1

ArenaLineCount == Cardinality(LineBreaks) + 1

ArenaLine(i) ==
    strip(SubSeq(ArenaContent,
                 IF i = 1 THEN 1 ELSE NthLineBreak(i - 1) + 1,
                 IF i = ArenaLineCount THEN Len(ArenaContent) ELSE NthLineBreak(i) - 1))

\* The section a header line opens; "" for a line that is no header.
HeaderSection(i) ==
    IF lower(ArenaLine(i)) = <<"c", "o", "m", "m", "a", "n", "d", "e", "r">> THEN "commander"
    ELSE IF lower(ArenaLine(i)) = <<"d", "e", "c", "k">> THEN "mainboard"
    ELSE IF lower(ArenaLine(i)) = <<"s", "i", "d", "e", "b", "o", "a", "r", "d">> THEN "sideboard"
    ELSE ""

\* A card line that is accepted: not blank, no 'Name ' line, no header, a
\* quantity and a name that survives cleaning.
AcceptedCard(i) ==
    /\ ArenaLine(i) # <<>>
    /\ ~startswith(ArenaLine(i), <<"N", "a", "m", "e", " ">>)
    /\ HeaderSection(i) = ""
    /\ card_match(ArenaLine(i)).matched
    /\ clean_arena_card_name(card_match(ArenaLine(i)).name) # <<>>

\* The section of line i: that of the most recent header before it.
SectionOf(i) ==
    LET headers == {j \in 1..(i - 1) : HeaderSection(j) # ""}
    IN  IF headers = {} THEN "mainboard"
        ELSE HeaderSection(CHOOSE j \in headers : \A k \in headers : k <= j)

\* The accepted card lines of a section, in the order of the export.
CardLinesOf(section) ==
    SelectSeq([i \in 1..ArenaLineCount |-> i],
              LAMBDA i : AcceptedCard(i) /\ SectionOf(i) = section)

CardNameAt(i) == clean_arena_card_name(card_match(ArenaLine(i)).name)

\* fetch_deck got the export and parsed it.
ArenaParsed ==
    /\ gf.pc = "fetched"
    /\ extract_deck_id(gf.url, gf.archetype_id) # None
    /\ ~ExportUnavailable

\* C27: every accepted card line of the Arena export goes to exactly one of
\* commanders, mainboard and sideboard, the one named by the most recent
\* header before it (mainboard when there is none); headers and 'Name '
\* lines give no card; the format is 'commander' exactly when there is a
\* commander, 'standard' otherwise.
C27_ArenaSections ==
    ArenaParsed =>
        /\ gf.result.commanders =
            [k \in 1..Len(CardLinesOf("commander")) |-> CardNameAt(CardLinesOf("commander")[k])]
        /\ Len(gf.result.mainboard) = Len(CardLinesOf("mainboard"))
        /\ \A k \in 1..Len(gf.result.mainboard) :
            /\ gf.result.mainboard[k].name = CardNameAt(CardLinesOf("mainboard")[k])
            /\ gf.result.mainboard[k].quantity =
                card_match(ArenaLine(CardLinesOf("mainboard")[k])).quantity
        /\ Len(gf.result.sideboard) = Len(CardLinesOf("sideboard"))
        /\ \A k \in 1..Len(gf.result.sideboard) :
            /\ gf.result.sideboard[k].name = CardNameAt(CardLinesOf("sideboard")[k])
            /\ gf.result.sideboard[k].quantity =
                card_match(ArenaLine(CardLinesOf("sideboard")[k])).quantity
        /\ gf.result.format =
            IF gf.result.commanders # <<>> THEN <<"c", "o", "m", "m", "a", "n", "d", "e", "r">> ELSE <<"s", "t", "a", "n", "d", "a", "r", "d">>

C27_Witness ==
    /\ ArenaParsed
    /\ gf.result.commanders = <<<<"N", "i", "v">>>>
    /\ Len(gf.result.mainboard) = 3
    /\ gf.result.mainboard[1].name = <<"O", "p", "t">>
    /\ gf.result.mainboard[3].name = <<"B", "o", "g">>
    /\ Len(gf.result.sideboard) = 1
    /\ gf.result.name = <<"I", "z">>

\* The number of copies the entries of a zone stand for.
RECURSIVE EntryTotal(_)
EntryTotal(entries) ==
    IF entries = <<>> THEN 0 ELSE Head(entries).number + EntryTotal(Tail(entries))

NonBlankCommanders(deck) ==
    Cardinality({i \in 1..Len(deck.commanders) : Trimmed(deck.commanders[i]) # <<>>})

\* C28: whichever converter runs, every mainboard card is in zone_main and
\* every sideboard card is in zone_side with its quantity, so the copies in
\* the output are those of the mainboard, of the sideboard and one for each
\* non-blank commander.
C28_ConversionLosesNoCard ==
    mx.pc = "converted" =>
        /\ Len(mx.out.zone_main) = Len(mx.deck.mainboard)
        /\ \A i \in 1..Len(mx.deck.mainboard) :
              mx.out.zone_main[i].number = get(mx.deck.mainboard[i], "quantity", 1)
        /\ Len(mx.out.zone_side) >= Len(mx.deck.sideboard)
        /\ \A i \in 1..Len(mx.deck.sideboard) :
              mx.out.zone_side[i].number = get(mx.deck.sideboard[i], "quantity", 1)
        /\ EntryTotal(mx.out.zone_main) + EntryTotal(mx.out.zone_side)
              = quantity_sum(mx.deck.mainboard) + quantity_sum(mx.deck.sideboard)
                + NonBlankCommanders(mx.deck)

\* C29: a record whose type is exactly an indicator of the table gets the
\* format under which that indicator is listed; no entry is shadowed by an
\* earlier one.
C29_NoIndicatorShadowed ==
    (inf.pc = "inferred" /\ "type" \in DOMAIN inf.deck_data) =>
        \A e \in 1..Len(FORMAT_INDICATORS) :
            \A k \in 1..Len(FORMAT_INDICATORS[e].indicators) :
                inf.deck_data["type"] = FORMAT_INDICATORS[e].indicators[k]
                    => inf.result = Returned(FORMAT_INDICATORS[e].format)

\* The folders of the themes folder that hold a version of the theme: the
\* one named after it and those named after it and a version.
VersionFolders(folders) ==
    {f \in folders : f = STR_theme_name
                        \/ startswith(f, STR_theme_name \o STR_version_infix)}

\* C30: a call that fails leaves every version of the theme that was
\* installed before it in place, and a call that installs leaves exactly
\* one version folder of the theme.
C30_FailedInstallKeepsTheme ==
    th.pc = "done" =>
        /\ th.result = Raised => VersionFolders(th.before) \subseteq th.folders
        /\ th.installed => Cardinality(VersionFolders(th.folders)) = 1

====
